---- MODULE Spec2Model ----
(***************************************************************************)
(* Overseer: the drift detector (src/overseer/drift/detector.py), the task *)
(* store (src/overseer/store/json_store.py) and the session store          *)
(* (src/overseer/store/session_store.py).                                  *)
(*                                                                         *)
(* Text is a sequence of one-character strings, so that the regular        *)
(* expressions, substring tests and case conversions of the detector are   *)
(* computed character by character.  An optional value (Python None or a   *)
(* value) is a sequence of length 0 or 1.  A score is an exact fraction    *)
(* <<numerator, denominator>> in lowest terms: the exact value of the      *)
(* decimal literals and of the sums and products the detector computes in  *)
(* binary floating point, so a product that rounding moves across a        *)
(* threshold (2/3 * 0.6 against 0.4) is compared here by its exact value.  *)
(* A point in time is the number of the reading of the clock that gave it, *)
(* a calendar day its day of the month.                                    *)
(***************************************************************************)
EXTENDS Integers, Sequences, FiniteSets, TLC

VARIABLES
    tasks,            \* DriftDetector.tasks
    jira_client,      \* DriftDetector.jira_client: <<>> (None) or <<client>>
    jira_project_key, \* DriftDetector.jira_project_key: <<>> (None) or <<key>>
    pc,               \* position of the detection call in progress
    entry,            \* which entry point the call in progress came through
    prompt,           \* the prompt of the call in progress
    local,            \* check_drift_async: the local variable `result`
    result,           \* the value the call returned
    search_calls,     \* arguments of the search_issues calls made by this call
    search_outcome,   \* what the awaited search_issues call did
    probe,            \* last input/output of a helper applied on its own
    remembered,       \* a prompt and the result of an earlier call, kept by the caller
    overseer_dir,     \* JsonTaskStore.overseer_dir.exists()
    tasks_file,       \* the "tasks" list of tasks.json: <<>> (no file) or <<list>>
    clock,            \* the number of datetime.now() readings so far
    store_call,       \* the last store call: arguments, outcome, file before it
    issued,           \* the ids create_task has returned, oldest first
    procs,            \* per process sharing .overseer: its store call between load and save
    calls,            \* per concurrent check_drift_async call: its frame
    jira_call,        \* the JiraClient.transition_issue call in progress or ended
    session_files,    \* sessions/<day>.json: the "sessions" list of each day
    range_call        \* the get_sessions_for_range call in progress or returned

\* the variables of the task store
storeVars == <<overseer_dir, tasks_file, clock, store_call, issued>>

\* the variables of the session store
sessVars == <<session_files, range_call>>

\* the variables of the drift detector
detVars == <<tasks, jira_client, jira_project_key, pc, entry, prompt, local,
             result, search_calls, search_outcome, probe>>

\* the calls in flight beside the one detection call: processes inside a store
\* call, concurrent check_drift_async calls, a transition_issue call
callVars == <<procs, calls, jira_call>>

vars == <<detVars, remembered, callVars, storeVars, sessVars>>

----------------------------------------------------------------------------
(* Characters and strings                                                  *)

UpperChars == <<"A","B","C","D","E","F","G","H","I","J","K","L","M",
                "N","O","P","Q","R","S","T","U","V","W","X","Y","Z">>

LowerChars == <<"a","b","c","d","e","f","g","h","i","j","k","l","m",
                "n","o","p","q","r","s","t","u","v","w","x","y","z">>

DigitChars == {"0","1","2","3","4","5","6","7","8","9"}

UpperSet == {UpperChars[i] : i \in DOMAIN UpperChars}

LowerSet == {LowerChars[i] : i \in DOMAIN LowerChars}

LetterChars == UpperSet \cup LowerSet

\* \w of Python's re, on ASCII text
WordChars == LetterChars \cup DigitChars \cup {"_"}

\* what str.strip() removes and \s matches, on ASCII text
SpaceChars == {" ", "\t", "\n", "\r", "\f"}

ToLowerMap == [c \in UpperSet |-> LowerChars[CHOOSE i \in DOMAIN UpperChars : UpperChars[i] = c]]

ToUpperMap == [c \in LowerSet |-> UpperChars[CHOOSE i \in DOMAIN LowerChars : LowerChars[i] = c]]

CharLower(c) == IF c \in UpperSet THEN ToLowerMap[c] ELSE c

CharUpper(c) == IF c \in LowerSet THEN ToUpperMap[c] ELSE c

\* str.lower()
RECURSIVE StrLower(_)
StrLower(s) ==
    IF Len(s) = 0 THEN <<>>
    ELSE IF Len(s) = 1 THEN <<CharLower(s[1])>>
    ELSE StrLower(SubSeq(s, 1, Len(s) \div 2)) \o StrLower(SubSeq(s, Len(s) \div 2 + 1, Len(s)))

\* str.upper()
RECURSIVE StrUpper(_)
StrUpper(s) ==
    IF Len(s) = 0 THEN <<>>
    ELSE IF Len(s) = 1 THEN <<CharUpper(s[1])>>
    ELSE StrUpper(SubSeq(s, 1, Len(s) \div 2)) \o StrUpper(SubSeq(s, Len(s) \div 2 + 1, Len(s)))

SetMin(S) == CHOOSE x \in S : \A y \in S : x <= y

SetMax(S) == CHOOSE x \in S : \A y \in S : x >= y

\* str.strip()
StrStrip(s) ==
    LET keep == {i \in 1..Len(s) : s[i] \notin SpaceChars}
    IN  IF keep = {} THEN <<>> ELSE SubSeq(s, SetMin(keep), SetMax(keep))

\* s[i:].startswith(lit), 1-based
StartsWithAt(s, i, lit) ==
    /\ i + Len(lit) - 1 <= Len(s)
    /\ \A k \in 1..Len(lit) : s[i + k - 1] = lit[k]

\* s[i:].startswith(lit) under re.IGNORECASE, for a lower-case lit
StartsWithAtNoCase(s, i, lit) ==
    /\ i + Len(lit) - 1 <= Len(s)
    /\ \A k \in 1..Len(lit) : CharLower(s[i + k - 1]) = lit[k]

\* lit in s
Contains(s, lit) == \E i \in 1..(Len(s) - Len(lit) + 1) : StartsWithAt(s, i, lit)

\* the last index of the longest run of characters of cls that starts at i
\* (i - 1 when s[i] is not in cls)
RECURSIVE RunEnd(_, _, _)
RunEnd(s, i, cls) ==
    IF i <= Len(s) /\ s[i] \in cls THEN RunEnd(s, i + 1, cls) ELSE i - 1

\* Option values
None == <<>>

Some(v) == <<v>>

----------------------------------------------------------------------------
(* Module constants of detector.py                                         *)

STOP_WORDS == {
    <<"a">>, <<"a","n">>, <<"t","h","e">>, <<"i","s">>,
    <<"a","r","e">>, <<"w","a","s">>, <<"w","e","r","e">>, <<"b","e">>,
    <<"b","e","e","n">>, <<"b","e","i","n","g">>, <<"h","a","v","e">>, <<"h","a","s">>,
    <<"h","a","d">>, <<"d","o">>, <<"d","o","e","s">>, <<"d","i","d">>,
    <<"w","i","l","l">>, <<"w","o","u","l","d">>, <<"c","o","u","l","d">>, <<"s","h","o","u","l","d">>,
    <<"m","a","y">>, <<"m","i","g","h","t">>, <<"m","u","s","t">>, <<"s","h","a","l","l">>,
    <<"c","a","n">>, <<"n","e","e","d">>, <<"d","a","r","e">>, <<"o","u","g","h","t">>,
    <<"u","s","e","d">>, <<"t","o">>, <<"o","f">>, <<"i","n">>,
    <<"f","o","r">>, <<"o","n">>, <<"w","i","t","h">>, <<"a","t">>,
    <<"b","y">>, <<"f","r","o","m">>, <<"a","s">>, <<"i","n","t","o">>,
    <<"t","h","r","o","u","g","h">>, <<"d","u","r","i","n","g">>, <<"b","e","f","o","r","e">>, <<"a","f","t","e","r">>,
    <<"a","b","o","v","e">>, <<"b","e","l","o","w">>, <<"b","e","t","w","e","e","n">>, <<"u","n","d","e","r">>,
    <<"a","g","a","i","n">>, <<"f","u","r","t","h","e","r">>, <<"t","h","e","n">>, <<"o","n","c","e">>,
    <<"h","e","r","e">>, <<"t","h","e","r","e">>, <<"w","h","e","n">>, <<"w","h","e","r","e">>,
    <<"w","h","y">>, <<"h","o","w">>, <<"a","l","l">>, <<"e","a","c","h">>,
    <<"f","e","w">>, <<"m","o","r","e">>, <<"m","o","s","t">>, <<"o","t","h","e","r">>,
    <<"s","o","m","e">>, <<"s","u","c","h">>, <<"n","o">>, <<"n","o","r">>,
    <<"n","o","t">>, <<"o","n","l","y">>, <<"o","w","n">>, <<"s","a","m","e">>,
    <<"s","o">>, <<"t","h","a","n">>, <<"t","o","o">>, <<"v","e","r","y">>,
    <<"j","u","s","t">>, <<"a","l","s","o">>, <<"n","o","w">>, <<"a","n","d">>,
    <<"b","u","t">>, <<"o","r">>, <<"i","f">>, <<"b","e","c","a","u","s","e">>,
    <<"u","n","t","i","l">>, <<"w","h","i","l","e">>, <<"a","l","t","h","o","u","g","h">>, <<"t","h","o","u","g","h">>,
    <<"i">>, <<"m","e">>, <<"m","y">>, <<"w","e">>,
    <<"o","u","r">>, <<"y","o","u">>, <<"y","o","u","r">>, <<"i","t">>,
    <<"i","t","s">>, <<"t","h","i","s">>, <<"t","h","a","t">>, <<"t","h","e","s","e">>,
    <<"t","h","o","s","e">>, <<"w","h","a","t">>, <<"w","h","i","c","h">>, <<"w","h","o">>,
    <<"w","h","o","m">>, <<"p","l","e","a","s","e">>, <<"h","e","l","p">>, <<"w","a","n","t">>,
    <<"l","i","k","e">>, <<"g","e","t">>, <<"m","a","k","e">>, <<"l","e","t">>,
    <<"t","r","y">>, <<"u","s","e">>
}

BUG_INDICATORS == {<<"b","u","g">>, <<"f","i","x">>, <<"b","r","o","k","e","n">>, <<"e","r","r","o","r">>, <<"c","r","a","s","h">>,
                   <<"i","s","s","u","e">>, <<"p","r","o","b","l","e","m">>, <<"f","a","i","l">>, <<"w","r","o","n","g">>}

FEATURE_INDICATORS == {<<"a","d","d">>, <<"c","r","e","a","t","e">>, <<"i","m","p","l","e","m","e","n","t">>, <<"b","u","i","l","d">>,
                       <<"n","e","w">>, <<"f","e","a","t","u","r","e">>}

REFACTOR_INDICATORS == {<<"r","e","f","a","c","t","o","r">>, <<"c","l","e","a","n">>, <<"i","m","p","r","o","v","e">>, <<"o","p","t","i","m","i","z","e">>,
                        <<"u","p","d","a","t","e">>, <<"c","h","a","n","g","e">>}

\* MatchStrength
STRONG == "strong"

WEAK == "weak"

NONE == "none"

MatchStrength == {STRONG, WEAK, NONE}

----------------------------------------------------------------------------
(* Scores: exact fractions <<n, d>>, d > 0, in lowest terms                *)

RECURSIVE GCD(_, _)
GCD(a, b) == IF b = 0 THEN a ELSE GCD(b, a % b)

Frac(n, d) == IF n = 0 THEN <<0, 1>> ELSE <<n \div GCD(n, d), d \div GCD(n, d)>>

FracAdd(a, b) == Frac(a[1] * b[2] + b[1] * a[2], a[2] * b[2])

FracMul(a, b) == Frac(a[1] * b[1], a[2] * b[2])

FracLess(a, b) == a[1] * b[2] < b[1] * a[2]

FracLeq(a, b) == a[1] * b[2] <= b[1] * a[2]

FracMin(a, b) == IF FracLess(b, a) THEN b ELSE a

RECURSIVE FracSum(_)
FracSum(xs) == IF xs = <<>> THEN <<0, 1>> ELSE FracAdd(Head(xs), FracSum(Tail(xs)))

Zero == <<0, 1>>

One == <<1, 1>>

\* the numeric literals of detector.py
STRONG_THRESHOLD == <<4, 5>>

WEAK_THRESHOLD == <<2, 5>>

KEYWORD_WEIGHT == <<3, 5>>

FILE_OVERLAP_SCORE == <<4, 5>>

FILE_BASENAME_SCORE == <<1, 2>>

BUG_TYPE_SCORE == <<3, 10>>

FEATURE_TYPE_SCORE == <<1, 5>>

JIRA_CONFIDENCE == <<3, 5>>

TitleLimit == 60

TitleKeep == 57

MinJiraKeywords == 2

MaxQueryKeywords == 5

----------------------------------------------------------------------------
(* Ordering of strings, for sorted(...)                                    *)

\* the characters the detector's sorted sets can hold, in code-point order
CodeOrder == <<"-",".","/","0","1","2","3","4","5","6","7","8","9","_",
               "a","b","c","d","e","f","g","h","i","j","k","l","m",
               "n","o","p","q","r","s","t","u","v","w","x","y","z">>

CharCode == [c \in {CodeOrder[i] : i \in DOMAIN CodeOrder} |->
                CHOOSE i \in DOMAIN CodeOrder : CodeOrder[i] = c]

RECURSIVE StrLess(_, _)
StrLess(a, b) ==
    IF b = <<>> THEN FALSE
    ELSE IF a = <<>> THEN TRUE
    ELSE IF Head(a) = Head(b) THEN StrLess(Tail(a), Tail(b))
    ELSE CharCode[Head(a)] < CharCode[Head(b)]

\* sorted(S) for a set of strings
RECURSIVE Sorted(_)
Sorted(S) ==
    IF S = {} THEN <<>>
    ELSE LET m == CHOOSE x \in S : \A y \in S \ {x} : StrLess(x, y)
         IN  <<m>> \o Sorted(S \ {m})

\* xs[:n]
Take(xs, n) == SubSeq(xs, 1, IF Len(xs) < n THEN Len(xs) ELSE n)

\* sep.join(xs)
RECURSIVE Join(_, _)
Join(xs, sep) ==
    IF xs = <<>> THEN <<>>
    ELSE IF Len(xs) = 1 THEN xs[1]
    ELSE xs[1] \o sep \o Join(Tail(xs), sep)

----------------------------------------------------------------------------
(* DriftResult and the helpers of DriftDetector                            *)

\* DriftResult(...); a reason is <<fixed text, interpolated text>>
DriftResult(task, conf, strength, title, reasons, issue) ==
    [matched_task |-> task, confidence |-> conf, match_strength |-> strength,
     suggested_title |-> title, match_reasons |-> reasons, jira_issue |-> issue]

\* re.search(r"\bTASK-(\d+)\b", prompt, re.IGNORECASE) succeeds at index i with
\* its digits ending at index e
ReferenceSpan(s, i, e) ==
    /\ i = 1 \/ s[i - 1] \notin WordChars
    /\ StartsWithAtNoCase(s, i, <<"t","a","s","k","-">>)
    /\ e >= i + 5
    /\ e = Len(s) \/ s[e + 1] \notin WordChars

ReferenceAt(s, i) == ReferenceSpan(s, i, RunEnd(s, i + 5, DigitChars))

\* ReferenceText without the normalisation to the upper-case "TASK-" prefix
ReferenceText_AsWritten(s, i) == SubSeq(s, i, RunEnd(s, i + 5, DigitChars))

\* f"TASK-{match.group(1)}" for the match at index i
ReferenceText(s, i) == <<"T","A","S","K","-">> \o SubSeq(s, i + 5, RunEnd(s, i + 5, DigitChars))

\* LeftmostReference taking the last match in place of the first
LeftmostReference_Rightmost(s, at) ==
    IF at = {} THEN None ELSE Some(ReferenceText(s, SetMax(at)))

\* the match leftmost in s, among the indices at
LeftmostReference(s, at) ==
    IF at = {} THEN None ELSE Some(ReferenceText(s, SetMin(at)))

\* task_id of _check_explicit_reference, or None when re.search finds nothing
ReferencedId(s) == LeftmostReference(s, {i \in 1..Len(s) : ReferenceAt(s, i)})

\* the index of the first task of ts whose id.upper() equals task_id.upper()
\* (0: none), among the indices hits
FirstHit(hits) == IF hits = {} THEN 0 ELSE SetMin(hits)

FindTaskById(ts, task_id) ==
    FirstHit({k \in 1..Len(ts) : StrUpper(ts[k].id) = StrUpper(task_id)})

\* the result of _check_explicit_reference for a referenced id, found at
\* index k of the task list (0: not found)
ExplicitResult(ts, task_id, k) ==
    IF k # 0
    THEN DriftResult(Some(ts[k]), One, STRONG, None,
                     <<<<"Explicit task reference", <<>>>>>>, None)
    ELSE DriftResult(None, Zero, NONE, Some(<<"W","o","r","k"," ","o","n"," ">> \o task_id),
                     <<<<"Referenced % but not in active tasks", task_id>>>>, None)

ExplicitFor(ts, ref) ==
    IF ref = None THEN None
    ELSE Some(ExplicitResult(ts, ref[1], FindTaskById(ts, ref[1])))

\* DriftDetector._check_explicit_reference: None or Some(result)
check_explicit_reference(ts, p) == ExplicitFor(ts, ReferencedId(p))

\* lit preceded by ".*" : lit starts at some k >= i with no newline in s[i..k-1]
DotStarThen(s, i, lit) ==
    \E k \in i..(Len(s) - Len(lit) + 1) :
        /\ StartsWithAt(s, k, lit)
        /\ \A m \in i..(k - 1) : s[m] # "\n"

\* re.match(pattern, s) for each entry of info_patterns, in list order
InfoPatternMatches(s) ==
    << StartsWithAt(s, 1, <<"w","h","a","t","'","s"," ","t","h","e"," ","s","t","a","t","u","s">>) \/ StartsWithAt(s, 1, <<"w","h","a","t"," ","i","s"," ","t","h","e"," ","s","t","a","t","u","s">>),
       \/ StartsWithAt(s, 1, <<"h","o","w","'","s"," ">>) /\ DotStarThen(s, 7, <<" ","g","o","i","n","g">>)
       \/ StartsWithAt(s, 1, <<"h","o","w"," ","i","s"," ">>) /\ DotStarThen(s, 8, <<" ","g","o","i","n","g">>),
       StartsWithAt(s, 1, <<"s","h","o","w"," ","m","e">>),
       StartsWithAt(s, 1, <<"l","i","s","t">>),
       StartsWithAt(s, 1, <<"t","e","l","l"," ","m","e"," ","a","b","o","u","t">>),
       StartsWithAt(s, 1, <<"e","x","p","l","a","i","n">>),
       StartsWithAt(s, 1, <<"w","h","a","t"," ","d","o","e","s"," ">>) /\ DotStarThen(s, 11, <<" ","d","o">>),
       StartsWithAt(s, 1, <<"h","o","w"," ","d","o","e","s"," ">>) /\ DotStarThen(s, 10, <<" ","w","o","r","k">>),
       StartsWithAt(s, 1, <<"w","h","e","r","e"," ","i","s">>),
       \/ StartsWithAt(s, 1, <<"c","a","n"," ","y","o","u"," ","s","h","o","w">>)
       \/ StartsWithAt(s, 1, <<"c","a","n"," ","y","o","u"," ","e","x","p","l","a","i","n">>)
       \/ StartsWithAt(s, 1, <<"c","a","n"," ","y","o","u"," ","t","e","l","l">>) >>

AnyTrue(m) == \E k \in DOMAIN m : m[k]

\* DriftDetector._is_informational_query
is_informational_query(p) == AnyTrue(InfoPatternMatches(StrStrip(StrLower(p))))

\* re.findall(r"[a-zA-Z][a-zA-Z0-9_]*", s), scanning from index i, as a set
RECURSIVE FindWords(_, _)
FindWords(s, i) ==
    IF i > Len(s) THEN {}
    ELSE IF s[i] \in LetterChars
         THEN LET e == RunEnd(s, i, WordChars)
              IN  {SubSeq(s, i, e)} \cup FindWords(s, e + 1)
         ELSE FindWords(s, i + 1)

\* DriftDetector._extract_keywords
extract_keywords(text) ==
    {w \in FindWords(StrLower(text), 1) : w \notin STOP_WORDS /\ Len(w) > 2}

PathChars == WordChars \cup {"-", "/"}

SegmentChars == WordChars \cup {"-"}

\* the end of [a-zA-Z]{1,4} matched greedily from index k, the letters running
\* to index r
ExtensionEnd(k, r) == IF r > k + 3 THEN k + 3 ELSE r

\* r"[\w\-/]+\.[a-zA-Z]{1,4}" matches at index i, its path part ending at j
FileExtAt(s, i, j) ==
    /\ j >= i
    /\ j + 2 <= Len(s)
    /\ s[j + 1] = "."
    /\ s[j + 2] \in LetterChars

\* re.findall(r"[\w\-/]+\.[a-zA-Z]{1,4}", s) from index i, as a set; where the
\* run s[i..j] is followed by no extension no later start within it matches
\* either, so the search resumes after j
RECURSIVE FindFileExt(_, _)
RECURSIVE FindFileExtFrom(_, _, _)
FindFileExtFrom(s, i, e) == {SubSeq(s, i, e)} \cup FindFileExt(s, e + 1)

FindFileExtStep(s, i, j) ==
    IF FileExtAt(s, i, j)
    THEN FindFileExtFrom(s, i, ExtensionEnd(j + 2, RunEnd(s, j + 2, LetterChars)))
    ELSE FindFileExt(s, IF j >= i THEN j + 1 ELSE i + 1)

FindFileExt(s, i) ==
    IF i > Len(s) THEN {} ELSE FindFileExtStep(s, i, RunEnd(s, i, PathChars))

\* the end of the longest chain (\.[\w\-]+)* that starts after index j
RECURSIVE DottedEnd(_, _)
DottedEnd(s, j) ==
    IF j + 2 <= Len(s) /\ s[j + 1] = "." /\ s[j + 2] \in SegmentChars
    THEN DottedEnd(s, RunEnd(s, j + 2, SegmentChars))
    ELSE j

\* re.findall(r"[\w\-]+(?:\.[\w\-]+)+", s) from index i, as a set; where the
\* run s[i..j] has no dotted continuation the search resumes after j
RECURSIVE FindDotted(_, _)
RECURSIVE FindDottedStep(_, _, _, _)
FindDottedStep(s, i, j, e) ==
    IF j >= i /\ e > j
    THEN {SubSeq(s, i, e)} \cup FindDotted(s, e + 1)
    ELSE FindDotted(s, IF j >= i THEN j + 1 ELSE i + 1)

FindDottedFrom(s, i, j) == FindDottedStep(s, i, j, DottedEnd(s, j))

FindDotted(s, i) ==
    IF i > Len(s) THEN {} ELSE FindDottedFrom(s, i, RunEnd(s, i, SegmentChars))

\* DriftDetector._extract_file_references
extract_file_references(text) ==
    {StrLower(m) : m \in FindFileExt(text, 1) \cup FindDotted(text, 1)}

\* any(w in s for w in indicators)
AnyIn(indicators, s) == \E w \in indicators : Contains(s, w)

\* the indices of character c in s
IndicesOf(s, c) == {i \in 1..Len(s) : s[i] = c}

AfterLast(f, slashes) ==
    IF slashes = {} THEN f ELSE SubSeq(f, SetMax(slashes) + 1, Len(f))

\* task_file.split("/")[-1]
LastSegment(f) == AfterLast(f, IndicesOf(f, "/"))

BeforeLast(x, dots) ==
    IF dots # {} /\ SetMax(dots) < Len(x) THEN SubSeq(x, 1, SetMax(dots) - 1) ELSE x

\* re.sub(r"\.[^.]+$", "", x)
DropExtension(x) == BeforeLast(x, IndicesOf(x, "."))

\* file_base of the loop at detector.py:332
FileBase(task_file) == StrLower(DropExtension(LastSegment(task_file)))

\* the first linked file whose file_base occurs in prompt.lower() (0: none)
FirstBasenameHit(files, p) ==
    FirstHit({k \in 1..Len(files) : Contains(StrLower(p), FileBase(files[k]))})

\* task_text of _score_task_match
TaskText(task) ==
    IF task.context # None /\ task.context[1] # <<>>
    THEN task.title \o <<" ">> \o task.context[1]
    ELSE task.title

\* 1. keyword overlap with title and context: the (score, reason) pairs added
KeywordOverlap(prompt_keywords, overlap) ==
    IF overlap # {}
    THEN << <<FracMul(Frac(Cardinality(overlap),
                           IF Cardinality(prompt_keywords) > 1
                           THEN Cardinality(prompt_keywords) ELSE 1),
                      KEYWORD_WEIGHT),
              <<"Keywords: %", Join(Take(Sorted(overlap), 3), <<","," ">>)>>>> >>
    ELSE <<>>

KeywordSignal(prompt_keywords, task_keywords) ==
    IF prompt_keywords # {} /\ task_keywords # {}
    THEN KeywordOverlap(prompt_keywords, prompt_keywords \cap task_keywords)
    ELSE <<>>

\* 2. file context matching
FileOverlap(file_overlap) ==
    IF file_overlap # {}
    THEN << <<FILE_OVERLAP_SCORE,
              <<"Files: %", Join(Take(Sorted(file_overlap), 2), <<","," ">>)>>>> >>
    ELSE <<>>

FileSignal(linked_files, prompt_files) ==
    IF linked_files # <<>> /\ prompt_files # {}
    THEN FileOverlap(prompt_files \cap
                     {StrLower(linked_files[k]) : k \in DOMAIN linked_files})
    ELSE <<>>

\* the loop over task.linked_files, hit being the index it breaks at (0: none)
BasenameHit(linked_files, hit) ==
    IF hit # 0
    THEN << <<FILE_BASENAME_SCORE, <<"File reference: %", linked_files[hit]>>>> >>
    ELSE <<>>

\* BasenameSignal that never fires
BasenameSignal_Never(linked_files, p) == <<>>

BasenameSignal(linked_files, p) ==
    BasenameHit(linked_files, FirstBasenameHit(linked_files, p))

\* 3. task type inference
TypeSignal(type, prompt_lower) ==
    IF type = "bug" /\ AnyIn(BUG_INDICATORS, prompt_lower)
    THEN << <<BUG_TYPE_SCORE, <<"Bug-related request", <<>>>>>> >>
    ELSE IF type = "feature" /\ AnyIn(FEATURE_INDICATORS, prompt_lower)
    THEN << <<FEATURE_TYPE_SCORE, <<"Feature-related request", <<>>>>>> >>
    ELSE <<>>

RECURSIVE ScoresOf(_)
ScoresOf(signals) ==
    IF signals = <<>> THEN <<>> ELSE <<Head(signals)[1]>> \o ScoresOf(Tail(signals))

RECURSIVE ReasonsOf(_)
ReasonsOf(signals) ==
    IF signals = <<>> THEN <<>> ELSE <<Head(signals)[2]>> \o ReasonsOf(Tail(signals))

\* FinalScore without the cap at 1.0
FinalScore_Uncapped(signals) ==
    IF signals = <<>> THEN <<Zero, <<>>>>
    ELSE <<FracSum(ScoresOf(signals)), ReasonsOf(signals)>>

\* final_score and reasons from the scores and reasons collected
FinalScore(signals) ==
    IF signals = <<>> THEN <<Zero, <<>>>>
    ELSE <<FracMin(FracSum(ScoresOf(signals)), One), ReasonsOf(signals)>>

\* DriftDetector._score_task_match: <<final_score, reasons>>
score_task_match(task, prompt_keywords, prompt_files, p) ==
    FinalScore(KeywordSignal(prompt_keywords, extract_keywords(TaskText(task)))
               \o FileSignal(task.linked_files, prompt_files)
               \o BasenameSignal(task.linked_files, p)
               \o TypeSignal(task.type, StrLower(p)))

\* score_to_strength with the STRONG threshold inclusive
score_to_strength_Inclusive(score) ==
    IF FracLeq(STRONG_THRESHOLD, score) THEN STRONG
    ELSE IF FracLeq(WEAK_THRESHOLD, score) THEN WEAK
    ELSE NONE

\* DriftDetector._score_to_strength
score_to_strength(score) ==
    IF FracLess(STRONG_THRESHOLD, score) THEN STRONG
    ELSE IF FracLeq(WEAK_THRESHOLD, score) THEN WEAK
    ELSE NONE

\* the prefixes list of _suggest_title, each r"^(<text>\s+)?"
TitlePrefixes == << <<"p","l","e","a","s","e">>, <<"c","a","n"," ","y","o","u">>, <<"c","o","u","l","d"," ","y","o","u">>, <<"i"," ","w","a","n","t"," ","t","o">>,
                    <<"i"," ","n","e","e","d"," ","t","o">>, <<"h","e","l","p"," ","m","e">>, <<"l","e","t","'","s">> >>

\* re.sub(r"^(<lit>\s+)?", "", title, flags=re.IGNORECASE)
StripPrefix(title, lit) ==
    IF /\ StartsWithAtNoCase(title, 1, lit)
       /\ Len(title) > Len(lit)
       /\ title[Len(lit) + 1] \in SpaceChars
    THEN SubSeq(title, RunEnd(title, Len(lit) + 1, SpaceChars) + 1, Len(title))
    ELSE title

RECURSIVE StripPrefixes(_, _)
StripPrefixes(title, k) ==
    IF k > Len(TitlePrefixes) THEN title
    ELSE StripPrefixes(StripPrefix(title, TitlePrefixes[k]), k + 1)

\* str.capitalize()
Capitalize(s) ==
    IF s = <<>> THEN <<>> ELSE <<CharUpper(Head(s))>> \o StrLower(Tail(s))

\* Truncate keeping 60 characters before the "..."
Truncate_KeepsLimit(title) ==
    IF Len(title) > TitleLimit THEN SubSeq(title, 1, TitleLimit) \o <<".",".",".">> ELSE title

\* if len(title) > 60: title = title[:57] + "..."
Truncate(title) ==
    IF Len(title) > TitleLimit THEN SubSeq(title, 1, TitleKeep) \o <<".",".",".">> ELSE title

\* WithFixPrefix without the test for a title that starts with "fix"
WithFixPrefix_Always(title, title_lower) ==
    IF AnyIn(BUG_INDICATORS, title_lower)
    THEN <<"F","i","x",":"," ">> \o title
    ELSE title

\* the "Fix: " prefix of a title whose lower-case form is title_lower
WithFixPrefix(title, title_lower) ==
    IF AnyIn(BUG_INDICATORS, title_lower) /\ ~StartsWithAt(title_lower, 1, <<"f","i","x">>)
    THEN <<"F","i","x",":"," ">> \o title
    ELSE title

InferType(title) == WithFixPrefix(title, StrLower(title))

\* title or "New task"
OrNewTask(title) == IF title = <<>> THEN <<"N","e","w"," ","t","a","s","k">> ELSE title

\* DriftDetector._suggest_title
suggest_title(p) ==
    OrNewTask(InferType(Truncate(Capitalize(StrStrip(StripPrefixes(StrStrip(p), 1))))))

\* Better letting a task with an equal score replace the best so far
Better_OnTies(best, task, sm) ==
    IF FracLeq(best[1], sm[1])
    THEN <<sm[1], Some(DriftResult(Some(task), sm[1], score_to_strength(sm[1]),
                                   None, sm[2], None))>>
    ELSE best

\* Better keeping the last task that scores at all, whatever came before
Better_LastScoring(best, task, sm) ==
    IF FracLess(Zero, sm[1])
    THEN <<sm[1], Some(DriftResult(Some(task), sm[1], score_to_strength(sm[1]),
                                   None, sm[2], None))>>
    ELSE best

\* the body of the loop of check_drift: best is <<best_score, best_match>>,
\* sm the <<score, reasons>> of task
Better(best, task, sm) ==
    IF FracLess(best[1], sm[1])
    THEN <<sm[1], Some(DriftResult(Some(task), sm[1], score_to_strength(sm[1]),
                                   None, sm[2], None))>>
    ELSE best

\* the loop of check_drift over self.tasks from index i
RECURSIVE ScanTasks(_, _, _, _, _, _)
ScanTasks(ts, i, prompt_keywords, prompt_files, p, best) ==
    IF i > Len(ts) THEN best
    ELSE ScanTasks(ts, i + 1, prompt_keywords, prompt_files, p,
                   Better(best, ts[i],
                          score_task_match(ts[i], prompt_keywords, prompt_files, p)))

\* NoGoodMatch suggesting a title only when some task scored above zero
NoGoodMatch_TitleOnlyWithCandidate(best_score, best_match, p) ==
    IF best_match = None
    THEN DriftResult(None, best_score, NONE, None, <<>>, None)
    ELSE IF FracLess(best_score, WEAK_THRESHOLD)
    THEN DriftResult(best_match[1].matched_task, best_score, NONE, Some(suggest_title(p)),
                     best_match[1].match_reasons, None)
    ELSE best_match[1]

\* check_drift from line 155 on: best is <<best_score, best_match>>
NoGoodMatch(best_score, best_match, p) ==
    IF best_match = None \/ FracLess(best_score, WEAK_THRESHOLD)
    THEN DriftResult(IF best_match # None THEN best_match[1].matched_task ELSE None,
                     best_score, NONE, Some(suggest_title(p)),
                     IF best_match # None THEN best_match[1].match_reasons ELSE <<>>,
                     None)
    ELSE best_match[1]

BestOrSuggestion(best, p) == NoGoodMatch(best[1], best[2], p)

\* check_drift from line 134 on: the lexical stage
LexicalStage(ts, p) ==
    BestOrSuggestion(ScanTasks(ts, 1, extract_keywords(p), extract_file_references(p),
                               p, <<Zero, None>>), p)

\* AfterExplicit asking the informational stage before the explicit reference
AfterExplicit_InformationalFirst(ts, p, explicit_match) ==
    IF is_informational_query(p)
    THEN DriftResult(None, One, STRONG, None,
                     <<<<"Informational query - not a task", <<>>>>>>, None)
    ELSE IF explicit_match # None
    THEN explicit_match[1]
    ELSE LexicalStage(ts, p)

\* AfterExplicit without the informational stage
AfterExplicit_NoInformationalStage(ts, p, explicit_match) ==
    IF explicit_match # None
    THEN explicit_match[1]
    ELSE LexicalStage(ts, p)

\* check_drift from line 121 on, explicit_match being the value of
\* _check_explicit_reference
AfterExplicit(ts, p, explicit_match) ==
    IF explicit_match # None
    THEN explicit_match[1]
    ELSE IF is_informational_query(p)
    THEN DriftResult(None, One, STRONG, None,
                     <<<<"Informational query - not a task", <<>>>>>>, None)
    ELSE LexicalStage(ts, p)

\* check_drift testing the prompt for emptiness without stripping it
check_drift_Unstripped(ts, p) ==
    IF p = <<>>
    THEN DriftResult(None, Zero, NONE, Some(<<"E","m","p","t","y"," ","r","e","q","u","e","s","t">>), <<>>, None)
    ELSE AfterExplicit(ts, p, check_explicit_reference(ts, p))

\* DriftDetector.check_drift
check_drift(ts, p) ==
    IF StrStrip(p) = <<>>
    THEN DriftResult(None, Zero, NONE, Some(<<"E","m","p","t","y"," ","r","e","q","u","e","s","t">>), <<>>, None)
    ELSE AfterExplicit(ts, p, check_explicit_reference(ts, p))

\* JiraResult labelled STRONG
JiraResult_Strong(issues) ==
    DriftResult(None, JIRA_CONFIDENCE, STRONG, None,
                <<<<"Jira search match: %", issues[1].key>>>>, Some(issues[1]))

\* JiraResult taking the last issue in place of the first
JiraResult_LastIssue(issues) ==
    DriftResult(None, JIRA_CONFIDENCE, WEAK, None,
                <<<<"Jira search match: %", issues[Len(issues)].key>>>>, Some(issues[Len(issues)]))

\* the DriftResult built by _check_jira_fallback from a non-empty issue list
JiraResult(issues) ==
    DriftResult(None, JIRA_CONFIDENCE, WEAK, None,
                <<<<"Jira search match: %", issues[1].key>>>>, Some(issues[1]))

\* SearchQueries without the cut to MaxQueryKeywords
SearchQueries_Uncut(keywords) == {keywords}

\* the queries " ".join(list(keywords)[:5]) can build: iteration order of a
\* set is unspecified, so any MaxQueryKeywords members; the query is kept as
\* the set of words joined
SearchQueries(keywords) ==
    {q \in SUBSET keywords :
        Cardinality(q) = IF Cardinality(keywords) < MaxQueryKeywords
                         THEN Cardinality(keywords) ELSE MaxQueryKeywords}

----------------------------------------------------------------------------
(* Inputs                                                                  *)

\* Task(...): the fields the detector and the store read
Task(id, title, type, context, linked_files) ==
    [id |-> id, title |-> title, status |-> "active", type |-> type,
     context |-> context, linked_files |-> linked_files]

TaskLogin == Task(<<"T","A","S","K","-","1">>, <<"F","i","x"," ","l","o","g","i","n"," ","t","i","m","e","o","u","t"," ","i","s","s","u","e">>, "bug", None, <<>>)

TaskNav == Task(<<"T","A","S","K","-","2">>, <<"A","d","d"," ","n","a","v"," ","m","e","n","u">>, "feature", Some(<<"S","e","e"," ","n","a","v",".","t","s","x">>),
                << <<"u","i","/","n","a","v",".","t","s","x">>, <<"s","t","y","l","e","s","/","g","l","o","b","a","l",".","c","s","s">> >>)

TaskEnv == Task(<<"T","A","S","K","-","3">>, <<"R","o","t","a","t","e"," ","s","e","c","r","e","t","s">>, "chore", None, << <<".","e","n","v">> >>)

TaskCache == Task(<<"T","A","S","K","-","4">>, <<"C","l","e","a","n"," ","c","a","c","h","e"," ","l","a","y","e","r">>, "debt", Some(<<>>), <<>>)

\* the task snapshots a detector is constructed with
TaskLists == { <<>>, <<TaskLogin>>, <<TaskLogin, TaskNav>>, <<TaskNav, TaskLogin>>,
               <<TaskCache, TaskEnv>> }

\* the sequences of at most n members of pieces
RECURSIVE PieceSeqs(_, _)
PieceSeqs(pieces, n) ==
    IF n = 0 THEN {<<>>}
    ELSE PieceSeqs(pieces, n - 1) \cup
         {Append(ws, pieces[k]) : ws \in {w \in PieceSeqs(pieces, n - 1) : Len(w) = n - 1},
                                  k \in DOMAIN pieces}

\* the prompts of at most n pieces separated by single spaces
PromptsFrom(pieces, n) == {Join(ws, <<" ">>) : ws \in PieceSeqs(pieces, n)}

\* work requests: the words prompts are built from
Pieces == << <<"\t">>, <<"T","A","S","K","-","1">>, <<"S","h","o","w"," ","m","e">>, <<"f","i","x">>, <<"l","o","g","i","n">>, <<"a","d","d">>,
             <<"n","a","v",".","t","s","x">>, <<"u","i","/","n","a","v",".","t","s","x">>, <<"d","e","p","l","o","y"," ","c","a","c","h","e">> >>

MaxWords == 2

Prompts == PromptsFrom(Pieces, MaxWords)

\* prompts that mention task ids
RefPieces == << <<"T","A","S","K","-","1">>, <<"T","a","s","k","-","2">>, <<"t","a","s","k","-","9">>, <<"T","A","S","K","-","1","2">>, <<"x","T","A","S","K","-","1">>,
                <<"T","A","S","K","-","2","_">>, <<"S","h","o","w"," ","m","e">>, <<"f","i","x">> >>

MaxRefWords == 2

RefPrompts == PromptsFrom(RefPieces, MaxRefWords)

\* questions and near-questions, one phrase each
InfoPieces == << <<"W","h","a","t","'","s"," ","t","h","e"," ","s","t","a","t","u","s"," ","o","f"," ","l","o","g","i","n">>, <<"w","h","a","t"," ","i","s"," ","t","h","e"," ","s","t","a","t","u","s">>,
                 <<"W","h","a","t"," ","i","s"," ","s","t","a","t","u","s">>, <<"H","o","w","'","s"," ","t","h","e"," ","l","o","g","i","n"," ","g","o","i","n","g">>, <<"h","o","w"," ","i","s"," "," ","g","o","i","n","g">>,
                 <<"H","o","w","'","s"," ","g","o","i","n","g">>, <<"S","h","o","w"," ","m","e"," ","T","A","S","K","-","1">>, <<" ","s","h","o","w"," ","m","e"," ","t","a","s","k","-","9">>,
                 <<"L","i","s","t"," ","a","l","l">>, <<"l","i","s","t","e","n">>, <<"T","e","l","l"," ","m","e"," ","a","b","o","u","t"," ","n","a","v",".","t","s","x">>,
                 <<"E","x","p","l","a","i","n"," ","t","h","e"," ","f","i","x">>, <<"W","h","a","t"," ","d","o","e","s"," ","l","o","g","i","n"," ","d","o">>, <<"w","h","a","t"," ","d","o","e","s"," ","d","o">>,
                 <<"H","o","w"," ","d","o","e","s"," ","f","i","x"," ","w","o","r","k">>, <<"W","h","e","r","e"," ","i","s"," ","T","A","S","K","-","1","2">>, <<"w","h","e","r","e"," ","a","r","e">>,
                 <<"C","a","n"," ","y","o","u"," ","t","e","l","l">>, <<"c","a","n"," ","y","o","u"," ","f","i","x">>, <<"P","l","e","a","s","e"," ","s","h","o","w"," ","m","e">> >>

MaxInfoWords == 1

InfoPrompts == PromptsFrom(InfoPieces, MaxInfoWords)

\* requests a title is suggested for: a polite prefix, bug vocabulary, and a
\* phrase of 58 characters that one more word takes to 60 and beyond
TitlePieces == << <<"P","l","e","a","s","e">>, <<"f","i","x">>, <<"c","r","a","s","h">>,
                  <<"t","h","e"," ","b","u","t","t","o","n"," ","i","s"," ","b","r","o","k","e","n">>, <<"a">>, <<"o","k">>,
                  <<"r","e","s","t","r","u","c","t","u","r","e"," ","i","n","t","e","r","n","a","t","i","o","n","a","l","i","z","a","t","i","o","n"," ","c","o","n","f","i","g","u","r","a","t","i","o","n","s"," ","t","h","o","r","o","u","g","h","l","y">> >>

MaxTitleWords == 2

TitlePrompts == PromptsFrom(TitlePieces, MaxTitleWords)

JiraIssue(key, summary, status, issue_type) ==
    [key |-> key, summary |-> summary, status |-> status, issue_type |-> issue_type]

Issue99 == JiraIssue(<<"P","R","O","J","-","9","9">>, "Related work from Jira", "Open", "Task")

Issue7 == JiraIssue(<<"P","R","O","J","-","7">>, "Cache deployment", "In Progress", "Bug")

\* what search_issues can return
IssueLists == { <<>>, <<Issue99>>, <<Issue7, Issue99>> }

\* the exceptions search_issues can raise (all derive from Exception)
SearchErrors == {"JiraClientError", "httpx.HTTPError"}

MaxScoreDen == 10

\* the scores score_to_strength is applied to on its own
ProbeScores == {Frac(n, d) : n \in 0..MaxScoreDen, d \in 1..MaxScoreDen} \cap
               {f \in (0..MaxScoreDen) \X (1..MaxScoreDen) : FracLeq(f, One)}

\* the (jira_client, jira_project_key) arguments a detector is constructed with
JiraSetups == { <<None, None>>, <<Some("client"), None>>, <<Some("client"), Some(<<"P","R","O","J">>)>> }

----------------------------------------------------------------------------
(* The detector as a state machine: one detection call at a time           *)

\* the calendar days of one month of 31 days, by day of the month
Days == 1..31

\* a detector just constructed, no call made yet
NewDetector ==
    /\ pc = "idle"
    /\ entry = "none"
    /\ prompt = <<>>
    /\ local = None
    /\ result = None
    /\ search_calls = <<>>
    /\ search_outcome = None
    /\ probe = None
    /\ remembered = None

\* JsonTaskStore(root) just constructed on a directory without .overseer
NewTaskStore ==
    /\ overseer_dir = FALSE
    /\ tasks_file = None
    /\ clock = 0
    /\ store_call = None
    /\ issued = <<>>

\* the processes that open the same .overseer directory
Procs == {"cli", "server"}

\* the check_drift_async calls running on one detector at a time
CallIds == {1, 2}

\* nothing in flight: no process inside a store call, no concurrent
\* check_drift_async call started, transition_issue not called
NothingInFlight ==
    /\ procs = [p \in Procs |-> None]
    /\ calls = [c \in CallIds |-> None]
    /\ jira_call = None

\* SessionStore(root) just constructed, nothing logged, no range asked
NewSessionStore ==
    /\ session_files = [d \in Days |-> <<>>]
    /\ range_call = None

Init ==
    /\ tasks \in TaskLists
    /\ \E c \in JiraSetups : jira_client = c[1] /\ jira_project_key = c[2]
    /\ NewDetector
    /\ NewTaskStore
    /\ NewSessionStore
    /\ NothingInFlight

\* CheckDrift taking the task it matched off the detector's list
CheckDrift_ConsumesTask(p) ==
    /\ pc = "idle"
    /\ pc' = "returned"
    /\ entry' = "check_drift"
    /\ prompt' = p
    /\ result' = Some(check_drift(tasks, p))
    /\ tasks' = SelectSeq(tasks, LAMBDA t : Some(t) # check_drift(tasks, p).matched_task)
    /\ UNCHANGED <<jira_client, jira_project_key, local, search_calls,
                   search_outcome, probe>>
    /\ UNCHANGED <<remembered, callVars, storeVars, sessVars>>

\* result = detector.check_drift(p)
CheckDrift(p) ==
    /\ pc = "idle"
    /\ pc' = "returned"
    /\ entry' = "check_drift"
    /\ prompt' = p
    /\ result' = Some(check_drift(tasks, p))
    /\ UNCHANGED <<tasks, jira_client, jira_project_key, local, search_calls,
                   search_outcome, probe>>
    /\ UNCHANGED <<remembered, callVars, storeVars, sessVars>>

\* the search_issues call of _check_jira_fallback
SearchCall(q) == [query |-> q, project_key |-> jira_project_key]

\* AfterLocal falling back to Jira for every result that is not STRONG
AfterLocal_SearchUnlessStrong(r, keywords) ==
    IF r.match_strength = STRONG \/ jira_client = None
    THEN /\ pc' = "returned"
         /\ result' = Some(r)
         /\ UNCHANGED search_calls
    ELSE IF Cardinality(keywords) >= MinJiraKeywords
    THEN /\ pc' = "awaiting"
         /\ result' = None
         /\ \E q \in SearchQueries(keywords) :
                search_calls' = Append(search_calls, SearchCall(q))
    ELSE /\ pc' = "returned"
         /\ result' = Some(r)
         /\ UNCHANGED search_calls

\* check_drift_async from line 181 on, r being the local result and keywords
\* the keywords _check_jira_fallback extracts: up to the return or to the
\* await of search_issues
AfterLocal(r, keywords) ==
    IF r.match_strength = STRONG \/ jira_client = None
    THEN /\ pc' = "returned"
         /\ result' = Some(r)
         /\ UNCHANGED search_calls
    ELSE IF r.match_strength = NONE /\ Cardinality(keywords) >= MinJiraKeywords
    THEN /\ pc' = "awaiting"
         /\ result' = None
         /\ \E q \in SearchQueries(keywords) :
                search_calls' = Append(search_calls, SearchCall(q))
    ELSE /\ pc' = "returned"
         /\ result' = Some(r)
         /\ UNCHANGED search_calls

\* await detector.check_drift_async(p), up to its return or to the await of
\* search_issues
AsyncCall(p, r) ==
    /\ pc = "idle"
    /\ entry' = "check_drift_async"
    /\ prompt' = p
    /\ local' = Some(r)
    /\ AfterLocal(r, extract_keywords(p))
    /\ UNCHANGED <<tasks, jira_client, jira_project_key, search_outcome, probe>>
    /\ UNCHANGED <<remembered, callVars, storeVars, sessVars>>

CheckDriftAsync(p) == AsyncCall(p, check_drift(tasks, p))

\* what the awaited search_issues call did
Raised(e) == [kind |-> "raise", error |-> e, issues |-> <<>>]

Returned(issues) == [kind |-> "return", error |-> "", issues |-> issues]

\* check_jira_fallback without the except clause
check_jira_fallback_Uncaught(outcome) ==
    IF outcome.kind = "raise"
    THEN [raised |-> TRUE, value |-> None]
    ELSE IF outcome.issues = <<>>
    THEN [raised |-> FALSE, value |-> None]
    ELSE [raised |-> FALSE, value |-> Some(JiraResult(outcome.issues))]

\* DriftDetector._check_jira_fallback from the await on: whether an exception
\* leaves it, and otherwise the value it returns (None or Some(result))
check_jira_fallback(outcome) ==
    IF outcome.kind = "raise"
    THEN [raised |-> FALSE, value |-> None]
    ELSE IF outcome.issues = <<>>
    THEN [raised |-> FALSE, value |-> None]
    ELSE [raised |-> FALSE, value |-> Some(JiraResult(outcome.issues))]

\* check_drift_async from the await on, jira_result being what
\* _check_jira_fallback made of the outcome
AfterSearch(outcome, jira_result) ==
    /\ pc = "awaiting"
    /\ search_outcome' = Some(outcome)
    /\ pc' = IF jira_result.raised THEN "raised" ELSE "returned"
    /\ result' = IF jira_result.raised THEN None
                 ELSE IF jira_result.value # None THEN jira_result.value
                 ELSE local
    /\ UNCHANGED <<tasks, jira_client, jira_project_key, entry, prompt, local,
                   search_calls, probe>>
    /\ UNCHANGED <<remembered, callVars, storeVars, sessVars>>

\* search_issues raises e
SearchRaises(e) == AfterSearch(Raised(e), check_jira_fallback(Raised(e)))

\* search_issues returns issues
SearchReturns(issues) == AfterSearch(Returned(issues), check_jira_fallback(Returned(issues)))

\* self._score_to_strength(s) on its own
ScoreToStrength(s) ==
    /\ pc = "idle"
    /\ pc' = "returned"
    /\ entry' = "score_to_strength"
    /\ probe' = Some([score |-> s, strength |-> score_to_strength(s)])
    /\ UNCHANGED <<tasks, jira_client, jira_project_key, prompt, local, result,
                   search_calls, search_outcome>>
    /\ UNCHANGED <<remembered, callVars, storeVars, sessVars>>

\* the call is over (it returned or raised); the detector is ready for the next
Return ==
    /\ pc \in {"returned", "raised"}
    /\ pc' = "idle"
    /\ entry' = "none"
    /\ prompt' = <<>>
    /\ local' = None
    /\ result' = None
    /\ search_calls' = <<>>
    /\ search_outcome' = None
    /\ probe' = None
    /\ UNCHANGED <<tasks, jira_client, jira_project_key>>
    /\ UNCHANGED <<remembered, callVars, storeVars, sessVars>>

\* the steps of a caller that draws its prompts from ps
NextOver(ps) ==
    \/ \E p \in ps : CheckDrift(p)
    \/ \E p \in ps : CheckDriftAsync(p)
    \/ \E e \in SearchErrors : SearchRaises(e)
    \/ \E issues \in IssueLists : SearchReturns(issues)
    \/ \E s \in ProbeScores : ScoreToStrength(s)
    \/ Return

Next == NextOver(Prompts)

Spec == Init /\ [][Next]_vars

NextRef == NextOver(RefPrompts)

SpecRef == Init /\ [][NextRef]_vars

NextInfo == NextOver(InfoPrompts)

SpecInfo == Init /\ [][NextInfo]_vars

NextTitle == NextOver(TitlePrompts)

SpecTitle == Init /\ [][NextTitle]_vars

----------------------------------------------------------------------------
(* A caller that asks the detector about the same prompt more than once    *)

\* the prompts of a caller that repeats itself
TwicePieces == << <<"T","A","S","K","-","1">>, <<"f","i","x"," ","l","o","g","i","n">>, <<"S","h","o","w"," ","m","e">>, <<"n","a","v",".","t","s","x">>, <<"a","d","d">> >>

MaxTwiceWords == 1

TwicePrompts == PromptsFrom(TwicePieces, MaxTwiceWords)

\* the caller keeps the prompt and the result of the call that just returned
Keep ==
    /\ pc = "returned"
    /\ entry \in {"check_drift", "check_drift_async"}
    /\ remembered = None
    /\ remembered' = Some([entry |-> entry, prompt |-> prompt, result |-> result])
    /\ UNCHANGED <<detVars, callVars, storeVars, sessVars>>

NextTwice ==
    \/ \E p \in TwicePrompts : CheckDrift(p)
    \/ \E p \in TwicePrompts : CheckDriftAsync(p)
    \/ \E e \in SearchErrors : SearchRaises(e)
    \/ \E issues \in IssueLists : SearchReturns(issues)
    \/ Keep
    \/ Return

SpecTwice == Init /\ [][NextTwice]_vars

----------------------------------------------------------------------------
(* The task store (src/overseer/store/json_store.py)                       *)

\* the value of each member of the enums TaskStatus, TaskType and Origin
EnumValue == [ACTIVE |-> "active", BACKLOG |-> "backlog", DONE |-> "done",
              BLOCKED |-> "blocked", FEATURE |-> "feature", BUG |-> "bug",
              DEBT |-> "debt", CHORE |-> "chore", HUMAN |-> "human",
              AGENT |-> "agent"]

\* TaskStatus(value), TaskType(value), Origin(value): the member with a value
EnumMember(value) == CHOOSE m \in DOMAIN EnumValue : EnumValue[m] = value

DigitSeq == <<"0","1","2","3","4","5","6","7","8","9">>

\* str(n) of a natural number
RECURSIVE Decimal(_)
Decimal(n) ==
    IF n < 10 THEN <<DigitSeq[n + 1]>>
    ELSE Decimal(n \div 10) \o <<DigitSeq[(n % 10) + 1]>>

RECURSIVE DigitsValue(_)
DigitsValue(s) ==
    IF s = <<>> THEN 0
    ELSE 10 * DigitsValue(SubSeq(s, 1, Len(s) - 1))
         + (CHOOSE v \in 0..9 : DigitSeq[v + 1] = s[Len(s)])

\* int(s) of a text of decimal digits: <<number>>, or <<>> for ValueError
ParseInt(s) ==
    IF s # <<>> /\ \A i \in DOMAIN s : s[i] \in DigitChars
    THEN Some(DigitsValue(s))
    ELSE None

\* datetime.isoformat() of the reading number t of the clock
isoformat(t) == Decimal(t)

\* datetime.fromisoformat(s)
fromisoformat(s) == ParseInt(s)[1]

\* Task.to_dict()
to_dict(task) ==
    [id |-> task.id, title |-> task.title, status |-> EnumValue[task.status],
     type |-> EnumValue[task.type], created_by |-> EnumValue[task.created_by],
     context |-> task.context, linked_files |-> task.linked_files,
     created_at |-> isoformat(task.created_at),
     updated_at |-> isoformat(task.updated_at)]

\* Task.from_dict(data)
from_dict(data) ==
    [id |-> data.id, title |-> data.title, status |-> EnumMember(data.status),
     type |-> EnumMember(data.type), created_by |-> EnumMember(data.created_by),
     context |-> data.context, linked_files |-> data.linked_files,
     created_at |-> fromisoformat(data.created_at),
     updated_at |-> fromisoformat(data.updated_at)]

TaskIdPrefix == <<"T","A","S","K","-">>

\* the numbers int(task_id[5:]) of the ids that start with "TASK-" and parse
TaskNumbers(stored) ==
    {ParseInt(SubSeq(stored[i].id, Len(TaskIdPrefix) + 1, Len(stored[i].id)))[1] :
        i \in {k \in DOMAIN stored :
                 /\ StartsWithAt(stored[k].id, 1, TaskIdPrefix)
                 /\ ParseInt(SubSeq(stored[k].id, Len(TaskIdPrefix) + 1,
                                    Len(stored[k].id))) # None}}

\* next_task_id numbering a new task one past the number of stored tasks
next_task_id_Count(stored) == TaskIdPrefix \o Decimal(Len(stored) + 1)

\* JsonTaskStore._next_task_id(data), stored being data["tasks"]
next_task_id(stored) ==
    IF stored = <<>> THEN TaskIdPrefix \o Decimal(1)
    ELSE TaskIdPrefix \o Decimal(SetMax(TaskNumbers(stored) \cup {0}) + 1)

\* the positions of the stored tasks whose id is task_id
Positions(stored, task_id) == {i \in DOMAIN stored : stored[i].id = task_id}

\* the loop body of update_task: task_data after the updates, read at time now
ApplyUpdates(task_data, updates, now) ==
    [key \in DOMAIN task_data \cup DOMAIN updates \cup {"updated_at"} |->
        IF key = "updated_at" THEN isoformat(now)
        ELSE IF key \in DOMAIN updates
        THEN IF key \in {"status", "type", "created_by"} /\ updates[key] \in DOMAIN EnumValue
             THEN EnumValue[updates[key]]
             ELSE updates[key]
        ELSE task_data[key]]

\* what a store call leaves behind: the new "tasks" list, whether it was
\* saved, and the value returned
Outcome(stored, saved, value) == [tasks |-> stored, saved |-> saved, value |-> value]

\* create_task(title, task_type, status) on the list stored, at time now
create_task(stored, title, task_type, status, now) ==
    Outcome(Append(stored,
                   to_dict([id |-> next_task_id(stored), title |-> title,
                            status |-> status, type |-> task_type,
                            created_by |-> "AGENT", context |-> None,
                            linked_files |-> <<>>, created_at |-> now,
                            updated_at |-> now])),
            TRUE,
            [id |-> next_task_id(stored), title |-> title, status |-> status,
             type |-> task_type, created_by |-> "AGENT", context |-> None,
             linked_files |-> <<>>, created_at |-> now, updated_at |-> now])

\* update_task putting the updated task at the end of the list
update_task_MovesToEnd(stored, task_id, updates, now) ==
    IF Positions(stored, task_id) = {} THEN Outcome(stored, FALSE, None)
    ELSE Outcome(Append(SelectSeq(stored, LAMBDA t : t.id # task_id),
                        ApplyUpdates(stored[SetMin(Positions(stored, task_id))],
                                     updates, now)),
                 TRUE,
                 Some(from_dict(ApplyUpdates(stored[SetMin(Positions(stored, task_id))],
                                             updates, now))))

\* update_task(task_id, **updates) on the list stored, at time now
update_task(stored, task_id, updates, now) ==
    IF Positions(stored, task_id) = {} THEN Outcome(stored, FALSE, None)
    ELSE Outcome([stored EXCEPT ![SetMin(Positions(stored, task_id))] =
                      ApplyUpdates(@, updates, now)],
                 TRUE,
                 Some(from_dict(ApplyUpdates(stored[SetMin(Positions(stored, task_id))],
                                             updates, now))))

\* delete_task reporting a deletion whether or not a task was removed
delete_task_AlwaysTrue(stored, task_id) ==
    Outcome(SelectSeq(stored, LAMBDA t : t.id # task_id), TRUE, TRUE)

\* delete_task(task_id) on the list stored
delete_task(stored, task_id) ==
    IF Len(SelectSeq(stored, LAMBDA t : t.id # task_id)) < Len(stored)
    THEN Outcome(SelectSeq(stored, LAMBDA t : t.id # task_id), TRUE, TRUE)
    ELSE Outcome(stored, FALSE, FALSE)

\* get_task(task_id) on the list stored
get_task(stored, task_id) ==
    IF Positions(stored, task_id) = {} THEN None
    ELSE Some(from_dict(stored[SetMin(Positions(stored, task_id))]))

RECURSIVE MapFromDict(_)
MapFromDict(stored) ==
    IF stored = <<>> THEN <<>>
    ELSE <<from_dict(Head(stored))>> \o MapFromDict(Tail(stored))

\* list_tasks(status) on the list stored; status is <<>> (None) or <<member>>
list_tasks(stored, status) ==
    IF status = None THEN MapFromDict(stored)
    ELSE SelectSeq(MapFromDict(stored), LAMBDA t : t.status = status[1])

\* the titles, types and statuses tasks are created with
CreateArgs == { << <<"F","i","x"," ","l","o","g","i","n">>, "BUG", "BACKLOG" >>,
                << <<"A","d","d"," ","n","a","v"," ","m","e","n","u">>, "FEATURE", "ACTIVE" >> }

\* the keyword arguments update_task is called with
UpdateArgs == { [status |-> "DONE"],
                [status |-> "ACTIVE", context |-> Some(<<"s","e","e"," ","n","a","v",".","t","s","x">>)],
                [title |-> <<"R","e","n","a","m","e","d">>] }

MaxAskedNumber == 3

\* the ids callers ask about: TASK-1 .. TASK-MaxAskedNumber and one id that
\* create_task never assigns
AskedIds == {TaskIdPrefix \o Decimal(n) : n \in 1..MaxAskedNumber} \cup {<<"N","O","T","E","-","1">>}

\* the status filters of list_tasks
StatusFilters == {None, Some("DONE"), Some("BACKLOG")}

\* datetime.now() is read at most MaxClock times
MaxClock == 4

NoUpdates == <<>>

\* the record of a call that returned value; before is tasks_file at the call
Called(op, task_id, updates, before, value) ==
    [op |-> op, task_id |-> task_id, updates |-> updates, raised |-> FALSE,
     value |-> value, before |-> before]

\* the record of a call that ensure_initialized ended with FileNotFoundError
NotInitialized(op, task_id, updates) ==
    [op |-> op, task_id |-> task_id, updates |-> updates, raised |-> TRUE,
     value |-> None, before |-> None]

\* store.initialize()
Initialize ==
    /\ overseer_dir' = TRUE
    /\ tasks_file' = IF tasks_file = None THEN Some(<<>>) ELSE tasks_file
    /\ store_call' = Some(Called("initialize", None, NoUpdates, tasks_file, None))
    /\ UNCHANGED <<clock, issued, detVars, remembered, callVars, sessVars>>

\* store.create_task(title, task_type, status)
CreateTask(title, task_type, status) ==
    /\ clock < MaxClock
    /\ IF ~overseer_dir
       THEN /\ store_call' = Some(NotInitialized("create_task", None, NoUpdates))
            /\ UNCHANGED <<tasks_file, clock, issued>>
       ELSE /\ clock' = clock + 1
            /\ tasks_file' = Some(create_task(tasks_file[1], title, task_type,
                                              status, clock + 1).tasks)
            /\ issued' = Append(issued, create_task(tasks_file[1], title, task_type,
                                                    status, clock + 1).value.id)
            /\ store_call' = Some(Called("create_task", None, NoUpdates, tasks_file,
                                         create_task(tasks_file[1], title, task_type,
                                                     status, clock + 1).value))
    /\ UNCHANGED <<overseer_dir, detVars, remembered, callVars, sessVars>>

\* store.update_task(task_id, **updates)
UpdateTask(task_id, updates) ==
    /\ clock < MaxClock
    /\ IF ~overseer_dir
       THEN /\ store_call' = Some(NotInitialized("update_task", Some(task_id), updates))
            /\ UNCHANGED <<tasks_file, clock>>
       ELSE /\ clock' = IF update_task(tasks_file[1], task_id, updates, clock + 1).saved
                        THEN clock + 1 ELSE clock
            /\ tasks_file' = IF update_task(tasks_file[1], task_id, updates, clock + 1).saved
                             THEN Some(update_task(tasks_file[1], task_id, updates,
                                                   clock + 1).tasks)
                             ELSE tasks_file
            /\ store_call' = Some(Called("update_task", Some(task_id), updates, tasks_file,
                                         update_task(tasks_file[1], task_id, updates,
                                                     clock + 1).value))
    /\ UNCHANGED <<overseer_dir, issued, detVars, remembered, callVars, sessVars>>

\* store.delete_task(task_id)
DeleteTask(task_id) ==
    /\ IF ~overseer_dir
       THEN /\ store_call' = Some(NotInitialized("delete_task", Some(task_id), NoUpdates))
            /\ UNCHANGED tasks_file
       ELSE /\ tasks_file' = IF delete_task(tasks_file[1], task_id).saved
                             THEN Some(delete_task(tasks_file[1], task_id).tasks)
                             ELSE tasks_file
            /\ store_call' = Some(Called("delete_task", Some(task_id), NoUpdates, tasks_file,
                                         delete_task(tasks_file[1], task_id).value))
    /\ UNCHANGED <<overseer_dir, clock, issued, detVars, remembered, callVars, sessVars>>

\* store.get_task(task_id)
GetTask(task_id) ==
    /\ store_call' = IF ~overseer_dir
                     THEN Some(NotInitialized("get_task", Some(task_id), NoUpdates))
                     ELSE Some(Called("get_task", Some(task_id), NoUpdates, tasks_file,
                                      get_task(tasks_file[1], task_id)))
    /\ UNCHANGED <<overseer_dir, tasks_file, clock, issued, detVars, remembered, callVars, sessVars>>

\* store.list_tasks(status); the call record keeps the filter as its task_id
ListTasks(status) ==
    /\ store_call' = IF ~overseer_dir
                     THEN Some(NotInitialized("list_tasks", status, NoUpdates))
                     ELSE Some(Called("list_tasks", status, NoUpdates, tasks_file,
                                      list_tasks(tasks_file[1], status)))
    /\ UNCHANGED <<overseer_dir, tasks_file, clock, issued, detVars, remembered, callVars, sessVars>>

NextStore ==
    \/ Initialize
    \/ \E a \in CreateArgs : CreateTask(a[1], a[2], a[3])
    \/ \E id \in AskedIds, u \in UpdateArgs : UpdateTask(id, u)
    \/ \E id \in AskedIds : DeleteTask(id)
    \/ \E id \in AskedIds : GetTask(id)
    \/ \E s \in StatusFilters : ListTasks(s)

\* a store just constructed, beside a detector without tasks
InitStore ==
    /\ tasks = <<>>
    /\ jira_client = None
    /\ jira_project_key = None
    /\ NewDetector
    /\ NewTaskStore
    /\ NewSessionStore
    /\ NothingInFlight

SpecStore == InitStore /\ [][NextStore]_vars

----------------------------------------------------------------------------
(* The session store (src/overseer/store/session_store.py)                 *)

\* WorkSession.to_dict()
WorkSession_to_dict(session) ==
    [id |-> session.id, summary |-> session.summary,
     files_touched |-> session.files_touched, task_id |-> session.task_id,
     logged_at |-> isoformat(session.logged_at)]

\* WorkSession.from_dict(data)
WorkSession_from_dict(data) ==
    [id |-> data.id, summary |-> data.summary,
     files_touched |-> data.files_touched, task_id |-> data.task_id,
     logged_at |-> fromisoformat(data.logged_at)]

RECURSIVE MapSessionFromDict(_)
MapSessionFromDict(stored) ==
    IF stored = <<>> THEN <<>>
    ELSE <<WorkSession_from_dict(Head(stored))>> \o MapSessionFromDict(Tail(stored))

\* get_sessions_for_day(day), files being the session files by day; a day
\* without a file reads as {"sessions": []}
get_sessions_for_day(files, day) ==
    IF day \in DOMAIN files THEN MapSessionFromDict(files[day]) ELSE <<>>

\* the last day of the month that the loop increments by adding one
LastIncrementedDay == 28

\* date(current.year, current.month, current.day + 1 if current.day < 28 else 1)
IncrementedDate(current) == IF current < LastIncrementedDay THEN current + 1 ELSE 1

\* start + timedelta(days=(current - start).days + 1), current being the
\* date just built
NextCurrent(start, current) == start + ((IncrementedDate(current) - start) + 1)

\* the days on which sessions are logged, the summaries and the generated ids
LogDays == {1, 2, 3, 28}

SessionSummaries == { <<"F","i","x","e","d"," ","l","o","g","i","n">> }

SessionIds == { <<"a","1","b","2","c","3","d","4">>, <<"0","f","9","e","8","d","7","c">> }

\* the days ranges are asked between
RangeDays == {1, 2, 3, 5, 28}

\* at most MaxSessions sessions are logged
MaxSessions == 2

\* a range call is followed for at most MaxDaysRead turns of its loop
MaxDaysRead == 4

\* the number of sessions on file
LoggedCount == Cardinality(UNION {{<<d, i>> : i \in DOMAIN session_files[d]} : d \in Days})

\* store.log_session(summary) on the day today, uuid4 giving id
LogSession(today, id, summary) ==
    /\ overseer_dir
    /\ range_call = None
    /\ LoggedCount < MaxSessions
    /\ clock' = clock + 1
    /\ session_files' = [session_files EXCEPT ![today] =
           Append(@, WorkSession_to_dict([id |-> id, summary |-> summary,
                                          files_touched |-> <<>>, task_id |-> None,
                                          logged_at |-> clock + 1]))]
    /\ UNCHANGED <<overseer_dir, tasks_file, store_call, issued, range_call, detVars, remembered, callVars>>

\* store.get_sessions_for_range(start, end) up to the first test of the loop
GetSessionsForRange(start, end) ==
    /\ overseer_dir
    /\ range_call = None
    /\ range_call' = Some([pc |-> "while", start |-> start, end |-> end,
                           current |-> start, sessions |-> <<>>, days_read |-> 0])
    /\ UNCHANGED <<session_files, storeVars, detVars, remembered, callVars>>

\* one test of `while current <= end` and, if it holds, one turn of the loop
RangeLoop ==
    /\ range_call # None
    /\ range_call[1].pc = "while"
    /\ range_call[1].days_read < MaxDaysRead
    /\ range_call' =
         IF range_call[1].current <= range_call[1].end
         THEN Some([range_call[1] EXCEPT
                 !.sessions = @ \o get_sessions_for_day(session_files, range_call[1].current),
                 !.current = NextCurrent(range_call[1].start, range_call[1].current),
                 !.days_read = @ + 1,
                 !.pc = IF NextCurrent(range_call[1].start, range_call[1].current)
                           > range_call[1].end
                        THEN "returned" ELSE "while"])
         ELSE Some([range_call[1] EXCEPT !.pc = "returned"])
    /\ UNCHANGED <<session_files, storeVars, detVars, remembered, callVars>>

\* the caller has taken the list the range call returned
RangeDone ==
    /\ range_call # None
    /\ range_call[1].pc = "returned"
    /\ range_call' = None
    /\ UNCHANGED <<session_files, storeVars, detVars, remembered, callVars>>

NextSessions ==
    \/ Initialize
    \/ \E today \in LogDays, id \in SessionIds, summary \in SessionSummaries :
          LogSession(today, id, summary)
    \/ \E start \in RangeDays, end \in RangeDays : GetSessionsForRange(start, end)
    \/ RangeLoop
    \/ RangeDone

SpecSessions == InitStore /\ [][NextSessions]_vars

----------------------------------------------------------------------------
(* A detector whose tasks score alike                                      *)

TaskTimeout == Task(<<"T","A","S","K","-","5">>, <<"F","i","x"," ","t","i","m","e","o","u","t"," ","o","n"," ","l","o","g","i","n">>, "bug", None, <<>>)

\* task snapshots with two tasks that many prompts score equally
TieLists == { <<TaskLogin, TaskTimeout>>, <<TaskTimeout, TaskLogin>>,
              <<TaskNav, TaskLogin, TaskTimeout>> }

InitTie ==
    /\ tasks \in TieLists
    /\ \E c \in JiraSetups : jira_client = c[1] /\ jira_project_key = c[2]
    /\ NewDetector
    /\ NewTaskStore
    /\ NewSessionStore
    /\ NothingInFlight

SpecTie == InitTie /\ [][Next]_vars


(* Two processes on one .overseer directory. Each store call is a read of  *)
(* tasks.json (_load_tasks_data), work on the private copy, and a          *)
(* replacement of tasks.json by that copy (_save_tasks_data: a temporary   *)
(* file renamed over it); nothing is held between the two.                 *)

\* the frame of a store call of a process: what it will write and return
Frame(op, task_id, outcome) ==
    [pc |-> IF outcome.saved THEN "loaded" ELSE "returned", op |-> op,
     task_id |-> task_id, data |-> outcome.tasks, value |-> outcome.value]

\* process p is inside no store call and has made none
NotCalled(p) == procs[p] = None

\* create_task in process p up to its _save_tasks_data
ProcCreateLoad(p, title, task_type, status) ==
    /\ NotCalled(p)
    /\ overseer_dir
    /\ clock < MaxClock
    /\ clock' = clock + 1
    /\ procs' = [procs EXCEPT ![p] =
           Some(Frame("create_task", None,
                      create_task(tasks_file[1], title, task_type, status, clock + 1)))]
    /\ UNCHANGED <<overseer_dir, tasks_file, store_call, issued, calls, jira_call,
                   detVars, remembered, sessVars>>

\* update_task in process p up to its _save_tasks_data, or to its return of
\* None when the id is not in the list it read
ProcUpdateLoad(p, task_id, updates) ==
    /\ NotCalled(p)
    /\ overseer_dir
    /\ clock < MaxClock
    /\ clock' = IF update_task(tasks_file[1], task_id, updates, clock + 1).saved
                THEN clock + 1 ELSE clock
    /\ procs' = [procs EXCEPT ![p] =
           Some(Frame("update_task", Some(task_id),
                      update_task(tasks_file[1], task_id, updates, clock + 1)))]
    /\ UNCHANGED <<overseer_dir, tasks_file, store_call, issued, calls, jira_call,
                   detVars, remembered, sessVars>>

\* delete_task in process p up to its _save_tasks_data, or to its return of
\* False when the id is not in the list it read
ProcDeleteLoad(p, task_id) ==
    /\ NotCalled(p)
    /\ overseer_dir
    /\ procs' = [procs EXCEPT ![p] =
           Some(Frame("delete_task", Some(task_id),
                      delete_task(tasks_file[1], task_id)))]
    /\ UNCHANGED <<overseer_dir, tasks_file, clock, store_call, issued, calls,
                   jira_call, detVars, remembered, sessVars>>

\* _save_tasks_data in process p and the return of its call
ProcSave(p) ==
    /\ procs[p] # None
    /\ procs[p][1].pc = "loaded"
    /\ tasks_file' = Some(procs[p][1].data)
    /\ issued' = IF procs[p][1].op = "create_task"
                 THEN Append(issued, procs[p][1].value.id) ELSE issued
    /\ procs' = [procs EXCEPT ![p] = Some([procs[p][1] EXCEPT !.pc = "returned"])]
    /\ UNCHANGED <<overseer_dir, clock, store_call, calls, jira_call,
                   detVars, remembered, sessVars>>

\* no process has called the store yet
NoneCalled == \A p \in Procs : NotCalled(p)

\* the store is set up and filled by one process alone; then each of the two
\* processes makes one call, their loads and saves in any order
NextProcs ==
    \/ NoneCalled /\ Initialize
    \/ NoneCalled /\ \E a \in CreateArgs : CreateTask(a[1], a[2], a[3])
    \/ \E p \in Procs, a \in CreateArgs : ProcCreateLoad(p, a[1], a[2], a[3])
    \/ \E p \in Procs, id \in AskedIds, u \in UpdateArgs : ProcUpdateLoad(p, id, u)
    \/ \E p \in Procs, id \in AskedIds : ProcDeleteLoad(p, id)
    \/ \E p \in Procs : ProcSave(p)

SpecProcs == InitStore /\ [][NextProcs]_vars

(* JiraClient.transition_issue: a GET of the issue's transitions, then a   *)
(* POST of the chosen one. The client waits at each request; the server's  *)
(* answer is an input.                                                     *)

\* an entry of the "transitions" list of Jira's answer
Transition(id, name) == [id |-> id, name |-> name]

ToDo == Transition("1", <<"T","o"," ","D","o">>)
InProgress == Transition("2", <<"I","n"," ","P","r","o","g","r","e","s","s">>)
Done == Transition("3", <<"D","o","n","e">>)
Closed == Transition("4", <<"D","O","N","E">>)

\* an answer of the server: its status, its text, and the "transitions" key
\* of its JSON body (None when the body is empty or has no such key)
Response(status, text, transitions) ==
    [status |-> status, text |-> text, transitions |-> transitions]

\* the answers to GET /issue/{key}/transitions
GetResponses ==
    { Response(200, <<>>, Some(<<ToDo, InProgress, Done>>)),
      Response(200, <<>>, Some(<<ToDo, InProgress>>)),
      Response(200, <<>>, Some(<<ToDo, Closed, Done>>)),
      Response(200, <<>>, Some(<<>>)),
      Response(200, <<>>, None),
      Response(401, <<"d","e","n","i","e","d">>, None),
      Response(404, <<"n","o"," ","i","s","s","u","e">>, None),
      Response(500, <<"o","o","p","s">>, None) }

\* the answers to POST /issue/{key}/transitions
PostResponses ==
    { Response(204, <<>>, None),
      Response(400, <<"b","a","d">>, None),
      Response(401, <<"d","e","n","i","e","d">>, None),
      Response(404, <<"n","o"," ","i","s","s","u","e">>, None) }

\* the issue keys and the transition names transition_issue is called with
IssueKeys == { <<"P","R","O","J","-","1","2","3">>, <<"P","R","O","J","-","7">> }
TransitionNames == { <<"D","o","n","e">>, <<"d","o","n","e">>, <<"I","n"," ","P","r","o","g","r","e","s","s">>, <<"T","o"," ","D","o">>, <<"I","n","v","a","l","i","d"," ","S","t","a","t","u","s">> }

\* f"/issue/{key}/transitions"
TransitionsEndpoint(key) == <<"/","i","s","s","u","e","/">> \o key \o <<"/","t","r","a","n","s","i","t","i","o","n","s">>

\* a request handed to httpx; json is the id of the POSTed transition
Request(method, endpoint, json) ==
    [method |-> method, endpoint |-> endpoint, json |-> json]

\* the exception _request raises for an answer, None when it raises none
RequestError(response, endpoint) ==
    IF response.status = 401
    THEN Some(<<"JiraAuthenticationError", <<"I","n","v","a","l","i","d"," ","c","r","e","d","e","n","t","i","a","l","s">>>>)
    ELSE IF response.status = 404
    THEN Some(<<"JiraNotFoundError", <<"N","o","t"," ","f","o","u","n","d",":"," ">> \o endpoint>>)
    ELSE IF response.status >= 400
    THEN Some(<<"JiraClientError",
                <<"A","P","I"," ","e","r","r","o","r"," ">> \o Decimal(response.status) \o <<":"," ">> \o response.text>>)
    ELSE None

\* transitions_data.get("transitions", [])
TransitionsOf(response) ==
    IF response.transitions = None THEN <<>> ELSE response.transitions[1]

\* the positions of the transitions named exactly as asked
MatchingTransitions_ExactCase(transitions, transition_name) ==
    {i \in DOMAIN transitions : transitions[i].name = transition_name}

\* the positions of the transitions with t["name"].lower() == transition_name.lower()
MatchingTransitions(transitions, transition_name) ==
    {i \in DOMAIN transitions :
        StrLower(transitions[i].name) = StrLower(transition_name)}

\* target_transition after the loop: the first match, None without one
TargetTransition(transitions, transition_name) ==
    IF MatchingTransitions(transitions, transition_name) = {} THEN None
    ELSE Some(transitions[SetMin(MatchingTransitions(transitions, transition_name))])

\* [t["name"] for t in transitions]
AvailableNames(transitions) == [i \in DOMAIN transitions |-> transitions[i].name]

\* the message of the JiraClientError for a name that is not available
NotAvailableMessage(key, transition_name, transitions) ==
    <<"T","r","a","n","s","i","t","i","o","n"," ","'">> \o transition_name \o <<"'"," ","n","o","t"," ","a","v","a","i","l","a","b","l","e"," ","f","o","r"," ">> \o key
        \o <<"."," ","A","v","a","i","l","a","b","l","e"," ","t","r","a","n","s","i","t","i","o","n","s",":"," ">> \o Join(AvailableNames(transitions), <<","," ">>)

\* a transition_issue call: where it is, what it sent, the local variable
\* transitions (None before the GET is answered), how it ended
JiraFrame(at, key, transition_name, requests, error, value) ==
    [pc |-> at, key |-> key, name |-> transition_name, requests |-> requests,
     transitions |-> None, error |-> error, value |-> value]

\* async with client: __aenter__ makes the httpx client
Enter ==
    /\ jira_call = None
    /\ jira_call' = Some(JiraFrame("idle", <<>>, <<>>, <<>>, None, None))
    /\ UNCHANGED <<procs, calls, detVars, remembered, storeVars, sessVars>>

\* client.transition_issue(key, transition_name) up to its first await;
\* outside the context _request raises before it sends anything
TransitionIssue(key, transition_name) ==
    /\ IF jira_call = None
       THEN jira_call' = Some(JiraFrame("raised", key, transition_name, <<>>,
                 Some(<<"JiraClientError",
                        <<"C","l","i","e","n","t"," ","n","o","t"," ","i","n","i","t","i","a","l","i","z","e","d","."," ","U","s","e"," ","a","s","y","n","c"," ","w","i","t","h"," ","c","o","n","t","e","x","t",".">>>>), None))
       ELSE /\ jira_call[1].pc = "idle"
            /\ jira_call' = Some(JiraFrame("get", key, transition_name,
                      <<Request("GET", TransitionsEndpoint(key), None)>>, None, None))
    /\ UNCHANGED <<procs, calls, detVars, remembered, storeVars, sessVars>>

\* the GET is answered: _request raises, or the loop looks for the
\* transition and the call raises or sends the POST
GetAnswers(response) ==
    /\ jira_call # None
    /\ jira_call[1].pc = "get"
    /\ jira_call' =
         IF RequestError(response, TransitionsEndpoint(jira_call[1].key)) # None
         THEN Some([jira_call[1] EXCEPT !.pc = "raised",
                 !.error = RequestError(response, TransitionsEndpoint(jira_call[1].key))])
         ELSE IF TargetTransition(TransitionsOf(response), jira_call[1].name) = None
         THEN Some([jira_call[1] EXCEPT !.pc = "raised",
                 !.transitions = Some(TransitionsOf(response)),
                 !.error = Some(<<"JiraClientError",
                                  NotAvailableMessage(jira_call[1].key, jira_call[1].name,
                                                      TransitionsOf(response))>>)])
         ELSE Some([jira_call[1] EXCEPT !.pc = "post",
                 !.transitions = Some(TransitionsOf(response)),
                 !.requests = Append(@, Request("POST",
                      TransitionsEndpoint(jira_call[1].key),
                      Some(TargetTransition(TransitionsOf(response),
                                            jira_call[1].name)[1].id)))])
    /\ UNCHANGED <<procs, calls, detVars, remembered, storeVars, sessVars>>

\* the POST is answered: _request raises, or the call returns True
PostAnswers(response) ==
    /\ jira_call # None
    /\ jira_call[1].pc = "post"
    /\ jira_call' =
         IF RequestError(response, TransitionsEndpoint(jira_call[1].key)) # None
         THEN Some([jira_call[1] EXCEPT !.pc = "raised",
                 !.error = RequestError(response, TransitionsEndpoint(jira_call[1].key))])
         ELSE Some([jira_call[1] EXCEPT !.pc = "returned", !.value = Some(TRUE)])
    /\ UNCHANGED <<procs, calls, detVars, remembered, storeVars, sessVars>>

NextJira ==
    \/ Enter
    \/ \E k \in IssueKeys, n \in TransitionNames : TransitionIssue(k, n)
    \/ \E r \in GetResponses : GetAnswers(r)
    \/ \E r \in PostResponses : PostAnswers(r)

SpecJira == InitStore /\ [][NextJira]_vars

(* Several check_drift_async calls on one detector. Each call is a         *)
(* coroutine with its own frame (prompt, result, jira_result); it runs     *)
(* without interruption up to the await of search_issues and again from    *)
(* the answer to its return, and other calls run in between.               *)

\* the prompts of the concurrent calls
AsyncPrompts == { <<"T","A","S","K","-","1">>, <<"f","i","x"," ","l","o","g","i","n">>, <<"d","e","p","l","o","y"," ","c","a","c","h","e">>, <<"a","d","d">>,
                  <<"S","h","o","w"," ","m","e">>, <<"r","o","t","a","t","e"," ","t","h","e"," ","s","e","c","r","e","t","s">> }

\* check_drift_async reaches the await of search_issues
Suspends(r, keywords) ==
    /\ ~(r.match_strength = STRONG \/ jira_client = None)
    /\ r.match_strength = NONE
    /\ Cardinality(keywords) >= MinJiraKeywords

\* the frame of a call: where it is, its prompt, its local variable result,
\* the search_issues call it made and the answer, the value it returned, and
\* the calls that were suspended when it was resumed
AsyncFrame(at, p, r, searched, returned) ==
    [pc |-> at, prompt |-> p, local |-> r, search_call |-> searched,
     search_outcome |-> None, result |-> returned, beside |-> {}]

\* the frame of check_drift_async(p) at its return or at its await, r being
\* the local result and q the query built from the keywords
Started(p, r, keywords, q) ==
    IF Suspends(r, keywords)
    THEN AsyncFrame("awaiting", p, r, Some(SearchCall(q)), None)
    ELSE AsyncFrame("returned", p, r, None, Some(r))

\* call c begins: await detector.check_drift_async(p), up to its return or
\* to the await of search_issues
StartAsync(c, p) ==
    /\ calls[c] = None
    /\ \E q \in SearchQueries(extract_keywords(p)) :
           calls' = [calls EXCEPT ![c] =
               Some(Started(p, check_drift(tasks, p), extract_keywords(p), q))]
    /\ UNCHANGED <<procs, jira_call, detVars, remembered, storeVars, sessVars>>

\* the calls other than c that are suspended at search_issues
SuspendedBeside(c) ==
    {d \in CallIds \ {c} : calls[d] # None /\ calls[d][1].pc = "awaiting"}

\* the value of a resumed call whose result is an attribute of the detector,
\* written by the call that started last
ResumedResult_SharedLocal(c, jira_result) ==
    IF jira_result.raised THEN None
    ELSE IF jira_result.value # None THEN jira_result.value
    ELSE Some(calls[SetMax({d \in CallIds : calls[d] # None})][1].local)

\* the value call c returns after the await, jira_result being what
\* _check_jira_fallback made of the answer
ResumedResult(c, jira_result) ==
    IF jira_result.raised THEN None
    ELSE IF jira_result.value # None THEN jira_result.value
    ELSE Some(calls[c][1].local)

\* call c is resumed with the answer of search_issues and runs to its end
ResumeAsync(c, outcome) ==
    /\ calls[c] # None
    /\ calls[c][1].pc = "awaiting"
    /\ calls' = [calls EXCEPT ![c] =
           Some([calls[c][1] EXCEPT
                   !.pc = IF check_jira_fallback(outcome).raised
                          THEN "raised" ELSE "returned",
                   !.search_outcome = Some(outcome),
                   !.result = ResumedResult(c, check_jira_fallback(outcome)),
                   !.beside = SuspendedBeside(c)])]
    /\ UNCHANGED <<procs, jira_call, detVars, remembered, storeVars, sessVars>>

\* the caller takes the value of call c; its frame is gone
FinishAsync(c) ==
    /\ calls[c] # None
    /\ calls[c][1].pc \in {"returned", "raised"}
    /\ calls' = [calls EXCEPT ![c] = None]
    /\ UNCHANGED <<procs, jira_call, detVars, remembered, storeVars, sessVars>>

NextAsync ==
    \/ \E c \in CallIds, p \in AsyncPrompts : StartAsync(c, p)
    \/ \E c \in CallIds, e \in SearchErrors : ResumeAsync(c, Raised(e))
    \/ \E c \in CallIds, issues \in IssueLists : ResumeAsync(c, Returned(issues))
    \/ \E c \in CallIds : FinishAsync(c)

SpecAsync == Init /\ [][NextAsync]_vars
----------------------------------------------------------------------------
(* Vocabulary of the properties                                            *)

\* a call of check_drift has returned
SyncReturned == pc = "returned" /\ entry = "check_drift"

\* a call of check_drift_async has returned
AsyncReturned == pc = "returned" /\ entry = "check_drift_async"

\* the prompt is empty or whitespace only
Blank(p) == \A i \in 1..Len(p) : p[i] \in SpaceChars

\* p[i..e] is a TASK-<digits> token: "task-" in any case, one or more digits,
\* and no word character next to it on either side
IsTaskToken(p, i, e) ==
    /\ i + 5 <= e
    /\ e <= Len(p)
    /\ StrLower(SubSeq(p, i, i + 4)) = <<"t","a","s","k","-">>
    /\ \A k \in (i + 5)..e : p[k] \in DigitChars
    /\ i = 1 \/ p[i - 1] \notin WordChars
    /\ e = Len(p) \/ p[e + 1] \notin WordChars

\* where a token of p can start: at a letter t
TokenStarts(p) == {i \in 1..Len(p) : p[i] \in {"t", "T"}}

\* the tokens of p, as <<first index, last index>>
Tokens(p) == {sp \in TokenStarts(p) \X (1..Len(p)) : IsTaskToken(p, sp[1], sp[2])}

\* the first token of a prompt that has one
FirstToken(p) == CHOOSE sp \in Tokens(p) : \A other \in Tokens(p) : sp[1] <= other[1]

\* the token sp of p names task t
Names(p, sp, t) == StrUpper(SubSeq(p, sp[1], sp[2])) = StrUpper(t.id)

\* the digits of the token sp of p
TokenDigits(p, sp) == SubSeq(p, sp[1] + 5, sp[2])

\* q begins with lit
HasPrefix(q, lit) == Len(q) >= Len(lit) /\ SubSeq(q, 1, Len(lit)) = lit

\* q begins with a, and b follows later on the same line
HasPrefixThen(q, a, b) ==
    /\ HasPrefix(q, a)
    /\ \E k \in (Len(a) + 1)..(Len(q) - Len(b) + 1) :
           /\ SubSeq(q, k, k + Len(b) - 1) = b
           /\ \A m \in (Len(a) + 1)..(k - 1) : q[m] # "\n"

InfoPrefixes == { <<"w","h","a","t","'","s"," ","t","h","e"," ","s","t","a","t","u","s">>, <<"w","h","a","t"," ","i","s"," ","t","h","e"," ","s","t","a","t","u","s">>, <<"s","h","o","w"," ","m","e">>, <<"l","i","s","t">>,
                  <<"t","e","l","l"," ","m","e"," ","a","b","o","u","t">>, <<"e","x","p","l","a","i","n">>, <<"w","h","e","r","e"," ","i","s">>, <<"c","a","n"," ","y","o","u"," ","s","h","o","w">>,
                  <<"c","a","n"," ","y","o","u"," ","e","x","p","l","a","i","n">>, <<"c","a","n"," ","y","o","u"," ","t","e","l","l">> }

InfoFrames == { << <<"h","o","w","'","s"," ">>, <<" ","g","o","i","n","g">> >>, << <<"h","o","w"," ","i","s"," ">>, <<" ","g","o","i","n","g">> >>,
                << <<"w","h","a","t"," ","d","o","e","s"," ">>, <<" ","d","o">> >>, << <<"h","o","w"," ","d","o","e","s"," ">>, <<" ","w","o","r","k">> >> }

\* the trimmed, lower-cased prompt matches one of the informational patterns
Informational(p) ==
    \/ \E lit \in InfoPrefixes : HasPrefix(StrStrip(StrLower(p)), lit)
    \/ \E fr \in InfoFrames : HasPrefixThen(StrStrip(StrLower(p)), fr[1], fr[2])

\* the result of the informational stage
InformationalResult ==
    DriftResult(None, One, STRONG, None, <<<<"Informational query - not a task", <<>>>>>>, None)

\* the result for an empty prompt
EmptyResult == DriftResult(None, Zero, NONE, Some(<<"E","m","p","t","y"," ","r","e","q","u","e","s","t">>), <<>>, None)

----------------------------------------------------------------------------
(* Properties                                                              *)

\* C1 as the specification words it: whenever check_drift returns for a
\* prompt in which some TASK-<n> token names a listed task, the result is
\* STRONG with confidence 1.0 and that task as matched_task.
C1_AnyReferenceMatches ==
    SyncReturned =>
        \A sp \in Tokens(prompt) : \A k \in 1..Len(tasks) :
            Names(prompt, sp, tasks[k]) =>
                /\ result[1].match_strength = STRONG
                /\ result[1].confidence = One
                /\ result[1].matched_task = Some(tasks[k])

\* C1, amended: whenever check_drift returns for a prompt whose first
\* TASK-<n> token names a listed task, the result is STRONG with confidence
\* 1.0 and that task as matched_task, whatever tokens follow.
C1_FirstReferenceMatches ==
    SyncReturned /\ Tokens(prompt) # {} =>
        \A k \in 1..Len(tasks) :
            Names(prompt, FirstToken(prompt), tasks[k]) =>
                /\ result[1].match_strength = STRONG
                /\ result[1].confidence = One
                /\ result[1].matched_task = Some(tasks[k])

\* check_drift has returned the task named first for a prompt that goes on to
\* name another id
C1_Witness ==
    /\ SyncReturned
    /\ Cardinality(Tokens(prompt)) >= 2
    /\ \E k \in 1..Len(tasks) :
           /\ Names(prompt, FirstToken(prompt), tasks[k])
           /\ \E sp \in Tokens(prompt) : ~Names(prompt, sp, tasks[k])
           /\ result[1].matched_task = Some(tasks[k])

\* C2 as the specification words it: whenever check_drift returns for a
\* prompt that matches an informational pattern, the result is STRONG with no
\* matched task.
C2_InformationalIsStrong ==
    SyncReturned /\ Informational(prompt) =>
        /\ result[1].match_strength = STRONG
        /\ result[1].matched_task = None

\* C2, amended: whenever check_drift returns for a prompt that matches an
\* informational pattern and holds no TASK-<n> token, the result is STRONG
\* with confidence 1.0, no matched task and no suggested title, whatever the
\* task list holds.
C2_InformationalWithoutReference ==
    SyncReturned /\ Informational(prompt) /\ Tokens(prompt) = {} =>
        /\ result[1].match_strength = STRONG
        /\ result[1].matched_task = None
        /\ result[1] = InformationalResult

\* check_drift has answered an informational prompt that shares a word with
\* the title of a listed task
C2_Witness ==
    /\ SyncReturned
    /\ Informational(prompt)
    /\ Tokens(prompt) = {}
    /\ \E k \in 1..Len(tasks) :
           extract_keywords(prompt) \cap extract_keywords(tasks[k].title) # {}
    /\ result[1].match_strength = STRONG
    /\ result[1].matched_task = None

C4_SearchFailureKeepsLocal ==
    /\ pc # "raised"
    /\ search_outcome # None /\
       (search_outcome[1].kind = "raise" \/ search_outcome[1].issues = <<>>) =>
           /\ AsyncReturned
           /\ result = Some(check_drift(tasks, prompt))
           /\ result[1].match_strength = NONE
           /\ result[1].jira_issue = None

\* check_drift_async has returned after search_issues raised
C4_Witness ==
    /\ AsyncReturned
    /\ search_outcome # None
    /\ search_outcome[1].kind = "raise"
    /\ Len(search_calls) = 1
    /\ result = local
    /\ result[1].suggested_title # None

\* C5: _score_to_strength maps a score above 0.8 to STRONG, a score from 0.4
\* to 0.8, both included, to WEAK, and a score below 0.4 to NONE.
C5_ExactBoundaries ==
    probe # None =>
        /\ probe[1].strength \in MatchStrength
        /\ probe[1].score[1] * 5 > 4 * probe[1].score[2] <=> probe[1].strength = STRONG
        /\ (/\ probe[1].score[1] * 5 >= 2 * probe[1].score[2]
            /\ probe[1].score[1] * 5 <= 4 * probe[1].score[2]) <=> probe[1].strength = WEAK
        /\ probe[1].score[1] * 5 < 2 * probe[1].score[2] <=> probe[1].strength = NONE
        /\ probe[1].score = <<4, 5>> => probe[1].strength = WEAK
        /\ probe[1].score = <<2, 5>> => probe[1].strength = WEAK

\* _score_to_strength has mapped 0.8
C5_Witness ==
    /\ probe # None
    /\ probe[1].score = <<4, 5>>
    /\ probe[1].strength = WEAK

\* the primary outcomes a result shows
HasTask(r) == r.matched_task # None

HasTitle(r) == r.suggested_title # None

HasIssue(r) == r.jira_issue # None

IsInformational(r) ==
    r.match_reasons = <<<<"Informational query - not a task", <<>>>>>>

OutcomeCount(r) ==
    (IF HasTask(r) THEN 1 ELSE 0) + (IF HasTitle(r) THEN 1 ELSE 0)
    + (IF HasIssue(r) THEN 1 ELSE 0) + (IF IsInformational(r) THEN 1 ELSE 0)

\* C6 as the specification words it: every result check_drift or
\* check_drift_async returns shows exactly one of a matched task, a suggested
\* title, an informational answer and a Jira issue.
C6_ExactlyOneOutcome ==
    SyncReturned \/ AsyncReturned => OutcomeCount(result[1]) = 1

\* C7 as the specification words it: with no tasks and a prompt that is not
\* blank, check_drift returns NONE with a suggested title and no matched task.
C7_EmptyListSuggests ==
    SyncReturned /\ tasks = <<>> /\ ~Blank(prompt) =>
        /\ result[1].match_strength = NONE
        /\ result[1].suggested_title # None
        /\ result[1].matched_task = None

\* C7, amended: with no tasks and a prompt that is not blank and either holds
\* a TASK-<n> token or matches no informational pattern, check_drift returns
\* NONE with a suggested title and no matched task.
C7_EmptyListSuggestsUnlessInformational ==
    /\ SyncReturned
    /\ tasks = <<>>
    /\ ~Blank(prompt)
    /\ Tokens(prompt) # {} \/ ~Informational(prompt)
    => /\ result[1].match_strength = NONE
       /\ result[1].suggested_title # None
       /\ result[1].matched_task = None

\* check_drift has suggested a title for a prompt of two words or more, with
\* no task to compare it to
C7_Witness ==
    /\ SyncReturned
    /\ tasks = <<>>
    /\ Cardinality(extract_keywords(prompt)) >= 2
    /\ Tokens(prompt) = {}
    /\ ~Informational(prompt)
    /\ result[1].match_strength = NONE
    /\ result[1].suggested_title = Some(suggest_title(prompt))

\* C8: whenever check_drift returns for a prompt whose first TASK-<n> token
\* names an id no listed task has, the result is NONE with confidence 0.0, no
\* matched task, the title "Work on TASK-<n>" and the one reason that the id
\* was referenced but is not among the tasks, whatever tokens follow.
C8_FirstReferenceAbsent ==
    /\ SyncReturned
    /\ Tokens(prompt) # {}
    /\ \A k \in 1..Len(tasks) : ~Names(prompt, FirstToken(prompt), tasks[k])
    => /\ result[1].match_strength = NONE
       /\ result[1].confidence = Zero
       /\ result[1].matched_task = None
       /\ result[1].suggested_title =
              Some(<<"W","o","r","k"," ","o","n"," ","T","A","S","K","-">> \o TokenDigits(prompt, FirstToken(prompt)))
       /\ result[1].match_reasons =
              << <<"Referenced % but not in active tasks",
                   <<"T","A","S","K","-">> \o TokenDigits(prompt, FirstToken(prompt))>> >>
       /\ result[1].jira_issue = None

\* check_drift has reported an absent id written in lower case, for a prompt
\* that goes on to name a listed task
C8_Witness ==
    /\ SyncReturned
    /\ Tokens(prompt) # {}
    /\ \A k \in 1..Len(tasks) : ~Names(prompt, FirstToken(prompt), tasks[k])
    /\ SubSeq(prompt, FirstToken(prompt)[1], FirstToken(prompt)[1] + 4) = <<"t","a","s","k","-">>
    /\ \E sp \in Tokens(prompt) : \E k \in 1..Len(tasks) : Names(prompt, sp, tasks[k])
    /\ result[1].match_strength = NONE

\* C9: for a blank prompt check_drift returns the "Empty request" result
\* (NONE, confidence 0.0, no matched task, no reasons) whatever the tasks, and
\* check_drift_async returns the same and never awaits a search.
C9_BlankPromptBypasses ==
    entry # "score_to_strength" /\ pc # "idle" /\ Blank(prompt) =>
        /\ pc = "returned"
        /\ result = Some(EmptyResult)
        /\ search_calls = <<>>
        /\ search_outcome = None

\* check_drift_async has returned for a whitespace prompt, with a Jira client
\* configured and a task listed that any scored prompt matches
C9_Witness ==
    /\ AsyncReturned
    /\ prompt # <<>>
    /\ Blank(prompt)
    /\ jira_client # None
    /\ \E k \in 1..Len(tasks) : score_task_match(tasks[k], {}, {}, <<"x">>)[1] # Zero
    /\ result = Some(EmptyResult)

\* C10: when search_issues returns a list that is not empty,
\* check_drift_async returns a WEAK result of confidence 0.6 whose jira_issue
\* is the first issue of the list and whose one reason names its key, with no
\* matched task and no suggested title.
C10_FirstIssueWins ==
    search_outcome # None /\ search_outcome[1].kind = "return"
    /\ search_outcome[1].issues # <<>> =>
        /\ AsyncReturned
        /\ result[1].jira_issue = Some(search_outcome[1].issues[1])
        /\ result[1].confidence = <<3, 5>>
        /\ result[1].match_strength = WEAK
        /\ result[1].match_reasons =
               << <<"Jira search match: %", search_outcome[1].issues[1].key>> >>
        /\ result[1].matched_task = None
        /\ result[1].suggested_title = None

\* check_drift_async has returned the first of two issues, the local result
\* having held a task, reasons and a title
C10_Witness ==
    /\ AsyncReturned
    /\ search_outcome # None
    /\ Len(search_outcome[1].issues) >= 2
    /\ local[1].matched_task # None
    /\ local[1].match_reasons # <<>>
    /\ local[1].suggested_title # None
    /\ result[1].jira_issue = Some(search_outcome[1].issues[1])


\* the call in progress is check_drift_async past its local check, with a
\* Jira client configured and a local result of strength NONE: the call is in
\* _check_jira_fallback or has come back from it
ReachedFallback ==
    /\ entry = "check_drift_async"
    /\ pc # "idle"
    /\ jira_client # None
    /\ local # None
    /\ local[1].match_strength = NONE

\* C11: in _check_jira_fallback a prompt with fewer than 2 keywords makes no
\* search_issues call and the local NONE result is returned; a prompt with 2
\* or more makes exactly one call, whose query holds at most 5 keywords, all
\* of them keywords of the prompt, and whose project filter is the configured
\* jira_project_key.
C11_SearchNeedsTwoKeywords ==
    ReachedFallback =>
        IF Cardinality(extract_keywords(prompt)) < 2
        THEN /\ search_calls = <<>>
             /\ pc = "returned"
             /\ result = local
        ELSE /\ Len(search_calls) = 1
             /\ search_calls[1].query \subseteq extract_keywords(prompt)
             /\ search_calls[1].query # {}
             /\ Cardinality(search_calls[1].query) <= 5
             /\ search_calls[1].project_key = jira_project_key

\* _check_jira_fallback has searched with a project key for a prompt of more
\* than 5 keywords
C11_Witness ==
    /\ ReachedFallback
    /\ Cardinality(extract_keywords(prompt)) > 5
    /\ Len(search_calls) = 1
    /\ Cardinality(search_calls[1].query) = 5
    /\ jira_project_key # None
    /\ search_calls[1].project_key = jira_project_key

\* _check_jira_fallback has returned without a search for a prompt of one
\* keyword
C11_WitnessFew ==
    /\ ReachedFallback
    /\ Cardinality(extract_keywords(prompt)) = 1
    /\ pc = "returned"
    /\ search_calls = <<>>

\* the call in progress went through the lexical stage of check_drift: its
\* prompt is not blank, holds no TASK-<n> token and is not informational
ReachedLexical ==
    /\ ~Blank(prompt)
    /\ Tokens(prompt) = {}
    /\ ~Informational(prompt)

\* the score and reasons of the k-th task for the prompt of the call
ScoreOfTask(k) ==
    score_task_match(tasks[k], extract_keywords(prompt),
                     extract_file_references(prompt), prompt)

\* the k-th task has the highest score, and is the first to have it
IsWinner(k) ==
    /\ \A j \in 1..Len(tasks) : FracLeq(ScoreOfTask(j)[1], ScoreOfTask(k)[1])
    /\ \A j \in 1..(k - 1) : ScoreOfTask(j)[1] # ScoreOfTask(k)[1]

\* the strength the thresholds give a confidence <<n, d>>
Classified(c) ==
    IF c[1] * 5 > 4 * c[2] THEN STRONG
    ELSE IF c[1] * 5 >= 2 * c[2] THEN WEAK
    ELSE NONE

\* C12: for a prompt that reaches the lexical stage, when the highest task
\* score is at least 0.4 check_drift returns the first task that has it,
\* with that score as confidence, the strength the thresholds give it, the
\* task's reasons and no suggested title; when the highest score is below 0.4
\* or there is no task, the result is NONE with the best score as confidence
\* (0 when nothing scores), the reasons of the best candidate (none when
\* nothing scores) and the title suggested for the prompt.
C12_LexicalOutcome ==
    SyncReturned /\ ReachedLexical =>
        /\ \A k \in 1..Len(tasks) :
               IsWinner(k) /\ ScoreOfTask(k)[1][1] * 5 >= 2 * ScoreOfTask(k)[1][2] =>
                   /\ result[1].matched_task = Some(tasks[k])
                   /\ result[1].confidence = ScoreOfTask(k)[1]
                   /\ result[1].match_strength = Classified(ScoreOfTask(k)[1])
                   /\ result[1].match_strength # NONE
                   /\ result[1].match_reasons = ScoreOfTask(k)[2]
                   /\ result[1].suggested_title = None
        /\ \A k \in 1..Len(tasks) :
               IsWinner(k) /\ ScoreOfTask(k)[1][1] * 5 < 2 * ScoreOfTask(k)[1][2] =>
                   /\ result[1].match_strength = NONE
                   /\ result[1].confidence = ScoreOfTask(k)[1]
                   /\ result[1].match_reasons = ScoreOfTask(k)[2]
                   /\ result[1].suggested_title = Some(suggest_title(prompt))
        /\ tasks = <<>> =>
               /\ result[1].match_strength = NONE
               /\ result[1].confidence = Zero
               /\ result[1].match_reasons = <<>>
               /\ result[1].suggested_title = Some(suggest_title(prompt))
        /\ result[1].jira_issue = None

\* check_drift has returned the second task of the list, which outscored a
\* first task that scored above zero
C12_Witness ==
    /\ SyncReturned
    /\ ReachedLexical
    /\ Len(tasks) = 2
    /\ IsWinner(2)
    /\ ScoreOfTask(1)[1] # Zero
    /\ result[1].matched_task = Some(tasks[2])
    /\ result[1].match_strength # NONE

\* check_drift has returned NONE with the reasons of a candidate that scored
\* above zero and below 0.4
C12_WitnessLow ==
    /\ SyncReturned
    /\ ReachedLexical
    /\ result[1].match_strength = NONE
    /\ result[1].confidence # Zero
    /\ result[1].match_reasons # <<>>
    /\ result[1].suggested_title # None

\* C14: in every result check_drift and check_drift_async return,
\* match_strength is the strength the thresholds give the confidence: STRONG
\* above 0.8, WEAK from 0.4 to 0.8, NONE below 0.4.
C14_StrengthFollowsConfidence ==
    SyncReturned \/ AsyncReturned =>
        result[1].match_strength = Classified(result[1].confidence)

\* check_drift_async has returned a Jira result, of confidence 0.6
C14_Witness ==
    /\ AsyncReturned
    /\ result[1].jira_issue # None
    /\ result[1].confidence = <<3, 5>>
    /\ result[1].match_strength = WEAK

\* the prompt of a call after the cleaning of _suggest_title: trimmed, the
\* polite prefixes removed, trimmed again and capitalized, not yet cut
Cleaned(p) == Capitalize(StrStrip(StripPrefixes(StrStrip(p), 1)))

\* the words of BUG_INDICATORS, spelled out
BugVocabulary == { <<"b","u","g">>, <<"f","i","x">>, <<"b","r","o","k","e","n">>, <<"e","r","r","o","r">>, <<"c","r","a","s","h">>, <<"i","s","s","u","e">>,
                   <<"p","r","o","b","l","e","m">>, <<"f","a","i","l">>, <<"w","r","o","n","g">> }

\* lit occurs in s, whatever the case of s
Occurs(lit, s) ==
    \E i \in 1..(Len(s) - Len(lit) + 1) : StrLower(SubSeq(s, i, i + Len(lit) - 1)) = lit

HasBugWord(s) == \E w \in BugVocabulary : Occurs(w, s)

StartsWithFix(s) == Len(s) >= 3 /\ StrLower(SubSeq(s, 1, 3)) = <<"f","i","x">>

\* the cleaned text as the title holds it: whole when it has at most 60
\* characters, else its first 57 characters and "..."; "New task" when empty
TitleBody(c) ==
    IF Len(c) > 60 THEN SubSeq(c, 1, 57) \o <<".",".",".">>
    ELSE IF c = <<>> THEN <<"N","e","w"," ","t","a","s","k">>
    ELSE c

\* a call of check_drift has returned a title suggested by _suggest_title
TitleSuggested ==
    /\ SyncReturned
    /\ ReachedLexical
    /\ result[1].suggested_title # None

\* C15 as the specification words it: the suggested title starts with
\* "Fix: " when the cleaned text, after prefix stripping, contains a bug
\* word and does not start with "fix", and is the unprefixed text otherwise.
C15_FixPrefixOnCleanedText ==
    TitleSuggested =>
        IF HasBugWord(Cleaned(prompt)) /\ ~StartsWithFix(Cleaned(prompt))
        THEN HasPrefix(result[1].suggested_title[1], <<"F","i","x",":"," ">>)
        ELSE result[1].suggested_title[1] = TitleBody(Cleaned(prompt))

\* C15, amended: the suggested title is "Fix: " followed by the cleaned and
\* cut text when that text, as cut to 57 characters and "...", contains a bug
\* word and does not start with "fix"; otherwise it is the cleaned and cut
\* text with nothing prepended.
C15_FixPrefixOnCutText ==
    TitleSuggested =>
        IF /\ HasBugWord(TitleBody(Cleaned(prompt)))
           /\ ~StartsWithFix(TitleBody(Cleaned(prompt)))
           /\ Cleaned(prompt) # <<>>
        THEN result[1].suggested_title[1] = <<"F","i","x",":"," ">> \o TitleBody(Cleaned(prompt))
        ELSE result[1].suggested_title[1] = TitleBody(Cleaned(prompt))

\* a title has been suggested with "Fix: " for a prompt that had a polite
\* prefix and a bug word inside another word
C15_Witness ==
    /\ TitleSuggested
    /\ Len(Cleaned(prompt)) < Len(StrStrip(prompt))
    /\ HasBugWord(Cleaned(prompt))
    /\ ~StartsWithFix(Cleaned(prompt))
    /\ result[1].suggested_title[1] = <<"F","i","x",":"," ">> \o Cleaned(prompt)

\* C16 as the specification words it: the suggested title is never longer
\* than 60 characters.
C16_TitleAtMostSixty ==
    TitleSuggested => Len(result[1].suggested_title[1]) <= 60

\* C16, amended: the suggested title is the cleaned text cut to at most 60
\* characters (whole when it has at most 60, else its first 57 and "..."),
\* with or without "Fix: " before it, so never longer than 65 characters.
C16_CutBeforeFixPrefix ==
    TitleSuggested =>
        /\ Len(TitleBody(Cleaned(prompt))) <= 60
        /\ \/ result[1].suggested_title[1] = TitleBody(Cleaned(prompt))
           \/ result[1].suggested_title[1] = <<"F","i","x",":"," ">> \o TitleBody(Cleaned(prompt))
        /\ Len(result[1].suggested_title[1]) <= 65
        /\ Len(Cleaned(prompt)) <= 60 /\ Cleaned(prompt) # <<>> =>
               SubSeq(result[1].suggested_title[1],
                      Len(result[1].suggested_title[1]) - Len(Cleaned(prompt)) + 1,
                      Len(result[1].suggested_title[1])) = Cleaned(prompt)

\* a title has been suggested for a cleaned text of 61 characters
C16_Witness ==
    /\ TitleSuggested
    /\ Len(Cleaned(prompt)) = 61
    /\ Len(result[1].suggested_title[1]) = 60

\* a title has been suggested for a cleaned text of 60 characters
C16_WitnessUncut ==
    /\ TitleSuggested
    /\ Len(Cleaned(prompt)) = 60
    /\ result[1].suggested_title[1] = Cleaned(prompt)


----------------------------------------------------------------------------
----------------------------------------------------------------------------
(* The task store                                                          *)

\* the last store call was op and it returned
StoreReturned(op) ==
    /\ store_call # None
    /\ store_call[1].op = op
    /\ ~store_call[1].raised

\* the ids of a stored list, in order
RECURSIVE IdsOf(_)
IdsOf(stored) ==
    IF stored = <<>> THEN <<>> ELSE <<Head(stored).id>> \o IdsOf(Tail(stored))

\* some task of the list has this id
HasId(stored, task_id) == \E i \in DOMAIN stored : stored[i].id = task_id

\* n is the largest number for which TASK-<n> is an id of the list (a task is
\* numbered at most MaxClock: every create_task reads the clock)
IsLargestNumber(stored, n) ==
    /\ HasId(stored, TaskIdPrefix \o Decimal(n))
    /\ \A k \in (n + 1)..MaxClock : ~HasId(stored, TaskIdPrefix \o Decimal(k))

\* no two tasks of the list have the same id
DistinctIds(stored) ==
    \A i, j \in DOMAIN stored : stored[i].id = stored[j].id => i = j

\* C17: on an initialized store create_task gives the new task the id TASK-1
\* when the list is empty and otherwise TASK-(m+1), m being the largest number
\* among the stored TASK-<n> ids, and after any sequence of create_task,
\* update_task and delete_task calls the stored tasks have pairwise distinct
\* ids.
C17_NextIdAndDistinctIds ==
    /\ tasks_file # None => DistinctIds(tasks_file[1])
    /\ StoreReturned("create_task") =>
          /\ store_call[1].before[1] = <<>> =>
                store_call[1].value.id = <<"T","A","S","K","-","1">>
          /\ store_call[1].before[1] # <<>> =>
                \E m \in 1..MaxClock :
                    /\ IsLargestNumber(store_call[1].before[1], m)
                    /\ store_call[1].value.id = TaskIdPrefix \o Decimal(m + 1)
          /\ tasks_file[1][Len(tasks_file[1])].id = store_call[1].value.id

\* after a deletion of TASK-1 a task was created beside TASK-2 and TASK-3:
\* it is TASK-4, not the number of stored tasks plus one
C17_Witness ==
    /\ StoreReturned("create_task")
    /\ IdsOf(store_call[1].before[1]) = << <<"T","A","S","K","-","2">>, <<"T","A","S","K","-","3">> >>
    /\ store_call[1].value.id = <<"T","A","S","K","-","4">>
    /\ IdsOf(tasks_file[1]) = << <<"T","A","S","K","-","2">>, <<"T","A","S","K","-","3">>, <<"T","A","S","K","-","4">> >>

\* the first task created on the store
C17_WitnessFirst ==
    /\ StoreReturned("create_task")
    /\ store_call[1].before[1] = <<>>
    /\ store_call[1].value.id = <<"T","A","S","K","-","1">>

\* C18: on an initialized store, update_task with an id that no stored task
\* has returns None and delete_task with such an id returns False, and both
\* leave the stored task list as it was; so does get_task, which returns None
\* (a deleted id is such an id).
C18_UnknownIdLeavesList ==
    /\ (StoreReturned("update_task") /\ ~HasId(store_call[1].before[1], store_call[1].task_id[1]))
          => store_call[1].value = None /\ tasks_file = store_call[1].before
    /\ (StoreReturned("delete_task") /\ ~HasId(store_call[1].before[1], store_call[1].task_id[1]))
          => store_call[1].value = FALSE /\ tasks_file = store_call[1].before
    /\ (StoreReturned("get_task") /\ ~HasId(store_call[1].before[1], store_call[1].task_id[1]))
          => store_call[1].value = None /\ tasks_file = store_call[1].before

\* TASK-1 is deleted again after its deletion (TASK-2 is stored, so TASK-1
\* existed): False, and the list still holds TASK-2
C18_Witness ==
    /\ StoreReturned("delete_task")
    /\ store_call[1].task_id = Some(<<"T","A","S","K","-","1">>)
    /\ IdsOf(store_call[1].before[1]) = << <<"T","A","S","K","-","2">> >>
    /\ store_call[1].value = FALSE
    /\ IdsOf(tasks_file[1]) = << <<"T","A","S","K","-","2">> >>

\* update_task of the deleted TASK-1
C18_WitnessUpdate ==
    /\ StoreReturned("update_task")
    /\ store_call[1].task_id = Some(<<"T","A","S","K","-","1">>)
    /\ IdsOf(store_call[1].before[1]) = << <<"T","A","S","K","-","2">> >>
    /\ store_call[1].value = None

\* the list without its i-th member
Without(stored, i) == SubSeq(stored, 1, i - 1) \o SubSeq(stored, i + 1, Len(stored))

\* what update_task stores for a keyword argument
StoredForm(key, value) ==
    IF key = "status" THEN EnumValue[value] ELSE value

\* after is before with the updates made to its i-th task and to no other
UpdatedAt(before, after, i, updates) ==
    /\ Len(after) = Len(before)
    /\ \A j \in DOMAIN before : j # i => after[j] = before[j]
    /\ DOMAIN after[i] = DOMAIN before[i]
    /\ \A key \in DOMAIN before[i] :
          IF key \in DOMAIN updates THEN after[i][key] = StoredForm(key, updates[key])
          ELSE key # "updated_at" => after[i][key] = before[i][key]

\* C19: update_task on a stored id changes the named fields and updated_at of
\* that task only, delete_task on a stored id removes that task only; the
\* other tasks and their order stay, and a get_task or list_tasks that follows
\* returns what the file now holds.
C19_OnlyTheTargetChanges ==
    /\ (StoreReturned("update_task") /\ HasId(store_call[1].before[1], store_call[1].task_id[1]))
          => \E i \in DOMAIN store_call[1].before[1] :
                /\ store_call[1].before[1][i].id = store_call[1].task_id[1]
                /\ UpdatedAt(store_call[1].before[1], tasks_file[1], i, store_call[1].updates)
                /\ store_call[1].value = Some(from_dict(tasks_file[1][i]))
    /\ (StoreReturned("delete_task") /\ HasId(store_call[1].before[1], store_call[1].task_id[1]))
          => \E i \in DOMAIN store_call[1].before[1] :
                /\ store_call[1].before[1][i].id = store_call[1].task_id[1]
                /\ tasks_file[1] = Without(store_call[1].before[1], i)
                /\ store_call[1].value = TRUE
    /\ (StoreReturned("get_task") /\ HasId(tasks_file[1], store_call[1].task_id[1]))
          => \E i \in DOMAIN tasks_file[1] :
                /\ tasks_file[1][i].id = store_call[1].task_id[1]
                /\ store_call[1].value = Some(from_dict(tasks_file[1][i]))
    /\ (StoreReturned("list_tasks") /\ store_call[1].task_id = None)
          => /\ Len(store_call[1].value) = Len(tasks_file[1])
             /\ \A i \in DOMAIN tasks_file[1] :
                   store_call[1].value[i] = from_dict(tasks_file[1][i])

\* the first of two stored tasks was updated: it is DONE, still first, and the
\* second is as it was
C19_Witness ==
    /\ StoreReturned("update_task")
    /\ store_call[1].task_id = Some(<<"T","A","S","K","-","1">>)
    /\ "status" \in DOMAIN store_call[1].updates
    /\ IdsOf(store_call[1].before[1]) = << <<"T","A","S","K","-","1">>, <<"T","A","S","K","-","2">> >>
    /\ store_call[1].before[1][1].status = "backlog"
    /\ tasks_file[1][1].status = "done"
    /\ tasks_file[1][1].updated_at # store_call[1].before[1][1].updated_at
    /\ tasks_file[1][2] = store_call[1].before[1][2]

\* the middle one of three stored tasks was deleted
C19_WitnessDelete ==
    /\ StoreReturned("delete_task")
    /\ store_call[1].task_id = Some(<<"T","A","S","K","-","2">>)
    /\ IdsOf(store_call[1].before[1]) = << <<"T","A","S","K","-","1">>, <<"T","A","S","K","-","2">>, <<"T","A","S","K","-","3">> >>
    /\ IdsOf(tasks_file[1]) = << <<"T","A","S","K","-","1">>, <<"T","A","S","K","-","3">> >>

\* get_task sees the status an update_task stored before it
C19_WitnessVisible ==
    /\ StoreReturned("get_task")
    /\ store_call[1].value # None
    /\ store_call[1].value[1].status = "DONE"

----------------------------------------------------------------------------
(* The session store                                                       *)

\* the sessions of the days from..to, day after day
RECURSIVE DayByDay(_, _, _)
DayByDay(files, from, to) ==
    IF from > to THEN <<>>
    ELSE get_sessions_for_day(files, from) \o DayByDay(files, from + 1, to)

\* a get_sessions_for_range(start, end) call with start <= end has returned
RangeReturned ==
    /\ range_call # None
    /\ range_call[1].pc = "returned"
    /\ range_call[1].start <= range_call[1].end

\* C20: get_sessions_for_range(start, end) with start <= end returns the
\* sessions of every day from start through end, each day once and in
\* ascending order: get_sessions_for_day(start) followed by that of start+1,
\* and so on up to end.
C20_RangeIsEveryDay ==
    RangeReturned =>
        range_call[1].sessions =
            DayByDay(session_files, range_call[1].start, range_call[1].end)

----------------------------------------------------------------------------
(* The order of the stages                                                 *)

\* the reasons the reference stage gives
ReferenceLabels == {"Explicit task reference", "Referenced % but not in active tasks"}

\* r was built by the reference stage
DecidedByReference(r) ==
    /\ Len(r.match_reasons) = 1
    /\ r.match_reasons[1][1] \in ReferenceLabels

\* C22: check_drift asks its stages in the order empty prompt, explicit
\* reference, informational query, lexical scoring, and the first that applies
\* decides: a prompt with a TASK-<n> token is resolved by the reference stage
\* even when it is informational or would score, an informational prompt
\* without a token gets the informational result and no score, and only the
\* other prompts are scored.
C22_FirstApplicableStageDecides ==
    SyncReturned =>
        /\ Blank(prompt) => result[1] = EmptyResult
        /\ (~Blank(prompt) /\ Tokens(prompt) # {}) => DecidedByReference(result[1])
        /\ (~Blank(prompt) /\ Tokens(prompt) = {} /\ Informational(prompt))
              => result[1] = InformationalResult
        /\ (~Blank(prompt) /\ Tokens(prompt) = {} /\ ~Informational(prompt))
              => /\ ~DecidedByReference(result[1])
                 /\ result[1] # InformationalResult
                 /\ result[1] # EmptyResult

\* an informational prompt that names a task of the list: the reference stage
\* has matched the task
C22_Witness ==
    /\ SyncReturned
    /\ Informational(prompt)
    /\ Tokens(prompt) # {}
    /\ result[1].matched_task # None
    /\ DecidedByReference(result[1])

\* an informational prompt whose keywords overlap a task of the list has got
\* the informational result
C22_WitnessUnscored ==
    /\ SyncReturned
    /\ Informational(prompt)
    /\ Tokens(prompt) = {}
    /\ \E i \in DOMAIN tasks :
          score_task_match(tasks[i], extract_keywords(prompt),
                           extract_file_references(prompt), prompt)[1] # Zero
    /\ result[1] = InformationalResult

----------------------------------------------------------------------------
(* The task the lexical stage reports                                      *)

\* C23: in the lexical stage the reported task is the first task of the list
\* whose score is the highest score of the list; a later task with the same
\* score does not replace it, and when no task scores above 0 no task is
\* reported.
C23_FirstOfTheBestIsReported ==
    SyncReturned /\ ReachedLexical =>
        /\ \A k \in 1..Len(tasks) :
               IsWinner(k) /\ ScoreOfTask(k)[1] # Zero =>
                   result[1].matched_task = Some(tasks[k])
        /\ (\A k \in 1..Len(tasks) : ScoreOfTask(k)[1] = Zero) =>
               result[1].matched_task = None
        /\ \A k \in 1..Len(tasks) :
               result[1].matched_task = Some(tasks[k]) =>
                   /\ ScoreOfTask(k)[1] # Zero
                   /\ \A j \in 1..Len(tasks) : FracLeq(ScoreOfTask(j)[1], ScoreOfTask(k)[1])

\* two tasks have the same score above zero, the highest of the list, and the
\* earlier one is reported
C23_Witness ==
    /\ SyncReturned
    /\ ReachedLexical
    /\ \E j, k \in 1..Len(tasks) :
          /\ j < k
          /\ IsWinner(j)
          /\ ScoreOfTask(k)[1] = ScoreOfTask(j)[1]
          /\ ScoreOfTask(j)[1] # Zero
          /\ result[1].matched_task = Some(tasks[j])

\* no task of a non-empty list scores, and none is reported
C23_WitnessZero ==
    /\ SyncReturned
    /\ ReachedLexical
    /\ tasks # <<>>
    /\ \A k \in 1..Len(tasks) : ScoreOfTask(k)[1] = Zero
    /\ result[1].matched_task = None

----------------------------------------------------------------------------
(* The score of a task                                                     *)

\* the words of FEATURE_INDICATORS, spelled out
FeatureVocabulary == { <<"a","d","d">>, <<"c","r","e","a","t","e">>, <<"i","m","p","l","e","m","e","n","t">>, <<"b","u","i","l","d">>, <<"n","e","w">>,
                       <<"f","e","a","t","u","r","e">> }

\* the name of a file without its directories
FileName(f) ==
    IF \E i \in DOMAIN f : f[i] = "/"
    THEN SubSeq(f, (CHOOSE i \in DOMAIN f : f[i] = "/" /\ \A j \in (i + 1)..Len(f) : f[j] # "/") + 1,
                Len(f))
    ELSE f

\* a file name without its extension: without its last dot and what follows
\* it, when something follows it
Stem(n) ==
    IF \E i \in 1..(Len(n) - 1) : n[i] = "." /\ \A j \in (i + 1)..Len(n) : n[j] # "."
    THEN SubSeq(n, 1, (CHOOSE i \in 1..(Len(n) - 1) :
                           n[i] = "." /\ \A j \in (i + 1)..Len(n) : n[j] # ".") - 1)
    ELSE n

\* the basename of a linked file, lower-cased
BaseName(f) == StrLower(Stem(FileName(f)))

\* k: 0.6 * |P \cap T| / |P| when the keywords of prompt and task overlap
KeywordPart(task, p) ==
    IF extract_keywords(p) \cap extract_keywords(TaskText(task)) # {}
    THEN Frac(3 * Cardinality(extract_keywords(p) \cap extract_keywords(TaskText(task))),
              5 * Cardinality(extract_keywords(p)))
    ELSE Zero

\* a file token of the prompt equals a linked file, whatever the case
FileOverlapFires(task, p) ==
    \E f \in extract_file_references(p) : \E i \in DOMAIN task.linked_files :
        StrLower(task.linked_files[i]) = StrLower(f)

\* f: 0.8
FilePart(task, p) == IF FileOverlapFires(task, p) THEN <<4, 5>> ELSE Zero

\* the basename of a linked file occurs in the lower-cased prompt
BasenameFires(task, p) ==
    \E i \in DOMAIN task.linked_files : Occurs(BaseName(task.linked_files[i]), p)

\* b: 0.5
BasenamePart(task, p) == IF BasenameFires(task, p) THEN <<1, 2>> ELSE Zero

\* t: 0.3 for a bug and a bug word, else 0.2 for a feature and a feature word
TypePart(task, p) ==
    IF task.type = "bug" /\ HasBugWord(p) THEN <<3, 10>>
    ELSE IF task.type = "feature" /\ (\E w \in FeatureVocabulary : Occurs(w, p)) THEN <<1, 5>>
    ELSE Zero

\* k + f + b + t
SumOfParts(task, p) ==
    FracAdd(FracAdd(KeywordPart(task, p), FilePart(task, p)),
            FracAdd(BasenamePart(task, p), TypePart(task, p)))

\* C24: the lexical score of every task for the prompt is min(1.0, k + f + b
\* + t), capped once on the sum, with k = 0.6 * |P \cap T| / |P| when prompt
\* and task keywords overlap, f = 0.8 when a file token of the prompt equals a
\* linked file in any case, b = 0.5 when the basename of a linked file occurs
\* in the lower-cased prompt, t = 0.3 for a bug with a bug word in the prompt,
\* else 0.2 for a feature with a feature word, else 0 (so never for debt and
\* chore tasks, and also without any keyword overlap).
C24_ScoreIsCappedSum ==
    SyncReturned /\ ReachedLexical =>
        \A k \in 1..Len(tasks) :
            /\ ScoreOfTask(k)[1] = FracMin(SumOfParts(tasks[k], prompt), One)
            /\ tasks[k].type \in {"debt", "chore"} => TypePart(tasks[k], prompt) = Zero

\* a task whose parts add up to more than 1.0 has the score 1.0
C24_Witness ==
    /\ SyncReturned
    /\ ReachedLexical
    /\ \E k \in 1..Len(tasks) :
          /\ FracLess(One, SumOfParts(tasks[k], prompt))
          /\ KeywordPart(tasks[k], prompt) # Zero
          /\ TypePart(tasks[k], prompt) # Zero
          /\ ScoreOfTask(k)[1] = One

\* a bug task scores 0.3 on a prompt with a bug word and no keyword of the task
C24_WitnessTypeAlone ==
    /\ SyncReturned
    /\ ReachedLexical
    /\ \E k \in 1..Len(tasks) :
          /\ KeywordPart(tasks[k], prompt) = Zero
          /\ ScoreOfTask(k)[1] = <<3, 10>>

----------------------------------------------------------------------------
(* The file signals                                                        *)

\* C29: for a prompt that reaches the lexical stage, whenever a file token of
\* the prompt equals a linked file of a task, the basename of a linked file of
\* that task occurs in the prompt too, so the task scores 1.0, and check_drift
\* returns STRONG with confidence 1.0.
C29_FileOverlapBringsBasename ==
    SyncReturned /\ ReachedLexical =>
        \A k \in 1..Len(tasks) :
            FileOverlapFires(tasks[k], prompt) =>
                /\ BasenameFires(tasks[k], prompt)
                /\ \E i \in DOMAIN ScoreOfTask(k)[2] :
                      ScoreOfTask(k)[2][i][1] = "File reference: %"
                /\ ScoreOfTask(k)[1] = One
                /\ result[1].match_strength = STRONG
                /\ result[1].confidence = One

\* the prompt names a linked file of a task by its path, and that task is
\* returned STRONG with both file reasons
C29_Witness ==
    /\ SyncReturned
    /\ ReachedLexical
    /\ \E k \in 1..Len(tasks) :
          /\ FileOverlapFires(tasks[k], prompt)
          /\ TypePart(tasks[k], prompt) = Zero
          /\ result[1].matched_task = Some(tasks[k])
          /\ result[1].match_strength = STRONG
          /\ \E i \in DOMAIN result[1].match_reasons :
                result[1].match_reasons[i][1] = "Files: %"
          /\ \E i \in DOMAIN result[1].match_reasons :
                result[1].match_reasons[i][1] = "File reference: %"

\* C30: the basename signal adds 0.5 to a task only if some linked file of the
\* task has a non-empty basename that occurs in the lower-cased prompt; a
\* linked file with an empty basename (a dotfile, a path ending in "/") never
\* makes it fire.
C30_BasenameSignalNeedsABasename ==
    SyncReturned /\ ReachedLexical =>
        \A k \in 1..Len(tasks) :
            (\E i \in DOMAIN ScoreOfTask(k)[2] :
                 ScoreOfTask(k)[2][i][1] = "File reference: %")
            => \E j \in DOMAIN tasks[k].linked_files :
                  /\ BaseName(tasks[k].linked_files[j]) # <<>>
                  /\ Occurs(BaseName(tasks[k].linked_files[j]), prompt)

----------------------------------------------------------------------------
(* The loop of get_sessions_for_range                                      *)

\* a step is a turn of the loop of get_sessions_for_range
LoopTurn ==
    /\ range_call # None
    /\ range_call' # None
    /\ range_call[1].pc = "while"
    /\ range_call'[1].days_read = range_call[1].days_read + 1

\* C26: get_sessions_for_range terminates for every pair of dates: every turn
\* of its loop moves the loop variable strictly forward (so that it exceeds
\* end after finitely many turns), also in ranges that hold a day of the
\* month of 28 or later.
C26_LoopMovesForward ==
    [][LoopTurn => range_call'[1].current > range_call[1].current]_vars

(* The ids create_task hands out over the lifetime of a store              *)

\* C28: an id that create_task returned is never returned by a later
\* create_task on the same store, whatever was deleted in between: the ids
\* handed out so far are pairwise different.
C28_IdsAreNeverReissued ==
    \A i \in DOMAIN issued : \A j \in DOMAIN issued : i # j => issued[i] # issued[j]

(* Two processes calling the store at once                                 *)

\* both processes have returned from their store call
BothReturned ==
    \A p \in Procs : procs[p] # None /\ procs[p][1].pc = "returned"

\* process p returned from a create_task
Created(p) == procs[p][1].op = "create_task"

\* the calls of p and q are about different tasks: one created a task and
\* the other created one too, or named another id than the one created
DifferentTasks(p, q) ==
    /\ p # q
    /\ Created(p)
    /\ Created(q) \/ procs[q][1].task_id # Some(procs[p][1].value.id)

\* the effect of the returned call of p is in tasks.json
EffectKept(p) ==
    IF procs[p][1].op = "create_task"
    THEN \E i \in DOMAIN tasks_file[1] : tasks_file[1][i] = to_dict(procs[p][1].value)
    ELSE IF procs[p][1].op = "delete_task"
    THEN procs[p][1].value => ~HasId(tasks_file[1], procs[p][1].task_id[1])
    ELSE procs[p][1].value # None =>
             \E i \in DOMAIN tasks_file[1] :
                 from_dict(tasks_file[1][i]) = procs[p][1].value[1]

\* C27: when two processes each run a store call on the same .overseer
\* directory, a create_task beside a create_task, or beside an update_task or
\* delete_task of a different task, then however their loads and saves
\* interleave, afterwards the effect of both calls is in the store and two
\* created tasks have different ids.
C27_NeitherEffectIsLost ==
    BothReturned =>
        \A p \in Procs : \A q \in Procs :
            DifferentTasks(p, q) =>
                /\ EffectKept(p)
                /\ EffectKept(q)
                /\ Created(q) => procs[p][1].value.id # procs[q][1].value.id

(* JiraClient.transition_issue                                             *)

\* the transition_issue call is at one of these places
JiraAt(places) == jira_call # None /\ jira_call[1].pc \in places

\* the request is the GET of the transitions of the issue of the call
IsGet(request) ==
    request = Request("GET", TransitionsEndpoint(jira_call[1].key), None)

\* the request is a POST to the transitions of the issue of the call
IsPost(request) ==
    /\ request.method = "POST"
    /\ request.endpoint = TransitionsEndpoint(jira_call[1].key)

\* some request of the call is a POST
Posted == \E i \in DOMAIN jira_call[1].requests : IsPost(jira_call[1].requests[i])

\* the i-th available transition has the name asked for, whatever the case
SameName(i) ==
    StrLower(jira_call[1].transitions[1][i].name) = StrLower(jira_call[1].name)

\* some available transition has the name asked for, whatever the case
SomeMatch ==
    \E i \in DOMAIN jira_call[1].transitions[1] : SameName(i)

\* the one POST of the call carries the id of the first available transition
\* with the name asked for
PostedFirstMatch ==
    /\ Len(jira_call[1].requests) = 2
    /\ IsPost(jira_call[1].requests[2])
    /\ \E i \in DOMAIN jira_call[1].transitions[1] :
           /\ SameName(i)
           /\ \A j \in 1..(i - 1) : ~SameName(j)
           /\ jira_call[1].requests[2].json = Some(jira_call[1].transitions[1][i].id)

\* the call raised JiraClientError with a message that has the name of every
\* available transition in it
RaisedNamingAvailable ==
    /\ jira_call[1].pc = "raised"
    /\ jira_call[1].error[1][1] = "JiraClientError"
    /\ Contains(jira_call[1].error[1][2], <<"n","o","t"," ","a","v","a","i","l","a","b","l","e">>)
    /\ \A i \in DOMAIN jira_call[1].transitions[1] :
           Contains(jira_call[1].error[1][2], jira_call[1].transitions[1][i].name)

\* C21: transition_issue first sends the GET of the issue's transitions; it
\* sends the POST only when the answer has a transition whose name is the
\* asked one whatever the case, with the id of the first such, and returns
\* True only after that POST; when the answer has no such transition it
\* raises a JiraClientError that names the available transitions and sends
\* no POST.
C21_PostOnlyAMatchingTransition ==
    JiraAt({"get", "post", "returned", "raised"}) =>
        /\ jira_call[1].requests # <<>> => IsGet(jira_call[1].requests[1])
        /\ Posted => jira_call[1].transitions # None /\ PostedFirstMatch
        /\ jira_call[1].pc = "returned" => Posted /\ jira_call[1].value = Some(TRUE)
        /\ jira_call[1].transitions # None =>
               IF SomeMatch THEN Posted
               ELSE RaisedNamingAvailable /\ ~Posted

\* C21 witness: the call returned True after the POST of a transition that
\* was not the first of the list and differed in case from the name asked.
C21_Witness ==
    /\ JiraAt({"returned"})
    /\ jira_call[1].name = <<"d","o","n","e">>
    /\ jira_call[1].requests[2].json = Some("4")
    /\ jira_call[1].value = Some(TRUE)

\* C21 witness: no available transition had the name asked, the call raised
\* and sent the GET alone.
C21_WitnessNoMatch ==
    /\ JiraAt({"raised"})
    /\ jira_call[1].transitions = Some(<<ToDo, InProgress>>)
    /\ jira_call[1].name = <<"I","n","v","a","l","i","d"," ","S","t","a","t","u","s">>
    /\ Len(jira_call[1].requests) = 1
    /\ Contains(jira_call[1].error[1][2], <<"T","o"," ","D","o",","," ","I","n"," ","P","r","o","g","r","e","s","s">>)

(* Concurrent check_drift_async calls                                      *)

\* what check_drift_async(p) returns when it runs alone on the detector and
\* search_issues, if the call gets to it, answers with outcome
Alone(p, outcome) ==
    IF check_drift(tasks, p).match_strength = NONE
       /\ jira_client # None
       /\ Cardinality(extract_keywords(p)) >= MinJiraKeywords
       /\ outcome # None
       /\ outcome[1].kind = "return"
       /\ outcome[1].issues # <<>>
    THEN JiraResult(outcome[1].issues)
    ELSE check_drift(tasks, p)

\* every call that is over returned, and returned what it would alone
EachAsAlone ==
    \A c \in CallIds :
        (calls[c] # None /\ calls[c][1].pc # "awaiting") =>
            /\ calls[c][1].pc = "returned"
            /\ calls[c][1].result =
                   Some(Alone(calls[c][1].prompt, calls[c][1].search_outcome))

\* a step changes the frame of one call at most, and nothing of the detector
OneFrameAtATime ==
    /\ \A c \in CallIds : \A d \in CallIds :
           (calls'[c] # calls[c] /\ calls'[d] # calls[d]) => c = d
    /\ tasks' = tasks
    /\ jira_client' = jira_client
    /\ jira_project_key' = jira_project_key

\* C25: however several check_drift_async calls on one detector interleave
\* at their remote searches, each returns the result it would return alone
\* with the same remote answer; a step of one call leaves the frames of the
\* others as they were, and the detector's tasks, client and project key are
\* never changed.
C25_ConcurrentCallsAreIndependent ==
    []EachAsAlone /\ [][OneFrameAtATime]_vars

\* C25 witness: call 1 searched, was resumed with no issue found while call 2
\* was suspended too, and returned its own local result; call 2, for another
\* prompt, returned something else.
C25_Witness ==
    /\ calls[1] # None
    /\ calls[2] # None
    /\ calls[1][1].pc = "returned"
    /\ calls[2][1].pc = "returned"
    /\ calls[1][1].beside = {2}
    /\ calls[1][1].search_outcome = Some(Returned(<<>>))
    /\ calls[1][1].result = Some(calls[1][1].local)
    /\ calls[2][1].prompt # calls[1][1].prompt
    /\ calls[2][1].result # calls[1][1].result
====
